---------------------------- MODULE Spec2Model ----------------------------
(***************************************************************************)
(* OceanChat query routing pipeline:                                       *)
(*   NLPService (parser)  ->  ExternalAPIService (live data, timeout)      *)
(*                        ->  NCDatabaseService (local store / samples)    *)
(*   orchestrated by DataRouterService.route_query.                        *)
(*                                                                         *)
(* Text is a sequence of one-character strings, so that the substring and  *)
(* regular-expression matching of the parser is computed as the code       *)
(* computes it ("southern" contains "south", "2022 s" is a latitude, ...). *)
(* A Python dict is a function whose DOMAIN is its set of keys.            *)
(* A value that may be None is <<>> (None) or <<v>> (a value).             *)
(***************************************************************************)
EXTENDS Integers, Sequences, FiniteSets, TLC

VARIABLES
    DEBUG,      \* settings.DEBUG
    now,        \* the date datetime.now() returns, <<year, month, day>>
    store,      \* rows of the ocean_measurements table
    client,     \* "real": ExternalAPIService; "stub": a test double of it
    calls       \* call id -> state of one route_query / parse_query call

vars == <<DEBUG, now, store, client, calls>>

----------------------------------------------------------------------------
(* Bounds of the model *)

\* Number of vocabulary items a query text of ParserSpec is made of, at most.
MaxWords == 2

\* Number of vocabulary items a query text of Spec is made of, at most.
MaxRouterWords == 2

----------------------------------------------------------------------------
(* Characters and text *)

DigitChars == <<"0","1","2","3","4","5","6","7","8","9">>

UpperLetters == <<"A","B","C","D","E","F","G","H","I","J","K","L","M",
                  "N","O","P","Q","R","S","T","U","V","W","X","Y","Z">>

LowerLetters == <<"a","b","c","d","e","f","g","h","i","j","k","l","m",
                  "n","o","p","q","r","s","t","u","v","w","x","y","z">>

IsDigit(c) == \E k \in 1..10 : DigitChars[k] = c

DigitVal(c) == (CHOOSE k \in 1..10 : DigitChars[k] = c) - 1

IsSpace(c) == c = " "

\* str.lower() on one character
LowerChar(c) ==
    IF \E k \in 1..26 : UpperLetters[k] = c
    THEN LowerLetters[CHOOSE k \in 1..26 : UpperLetters[k] = c]
    ELSE c

\* str.lower()
Lower(t) == [k \in 1..Len(t) |-> LowerChar(t[k])]

\* p occurs in t at offset i (0-based)
OccursAt(t, p, i) ==
    /\ i + Len(p) <= Len(t)
    /\ \A j \in 1..Len(p) : t[i + j] = p[j]

\* Python's  p in t  on strings
Contains(t, p) == \E i \in 0..(Len(t) - Len(p)) : OccursAt(t, p, i)

\* Decimal digits of n, at least `width` of them (zero padded)
RECURSIVE DigitsOf(_, _)
DigitsOf(n, width) ==
    IF n < 10 /\ width <= 1
    THEN <<DigitChars[n + 1]>>
    ELSE Append(DigitsOf(n \div 10, width - 1), DigitChars[(n % 10) + 1])

\* Value of a run of decimal digits
RECURSIVE NumberOf(_)
NumberOf(ds) ==
    IF Len(ds) = 0 THEN 0
    ELSE 10 * NumberOf(SubSeq(ds, 1, Len(ds) - 1)) + DigitVal(ds[Len(ds)])

----------------------------------------------------------------------------
(* Python dict helpers *)

EmptyDict == <<>>

HasKey(d, k) == k \in DOMAIN d

Put(d, k, v) == [x \in (DOMAIN d) \cup {k} |-> IF x = k THEN v ELSE d[x]]

\* dict.get(k, default)
Get(d, k, default) == IF k \in DOMAIN d THEN d[k] ELSE default

\* dict.update(e)
Update(d, e) ==
    [x \in (DOMAIN d) \cup (DOMAIN e) |-> IF x \in DOMAIN e THEN e[x] ELSE d[x]]

----------------------------------------------------------------------------
(* Dates: datetime.now(), timedelta(days=n), strftime("%Y-%m-%d")          *)

IsLeap(y) == (y % 4 = 0) /\ ((y % 100 # 0) \/ (y % 400 = 0))

DaysInMonth(y, m) ==
    IF m = 2 THEN (IF IsLeap(y) THEN 29 ELSE 28)
    ELSE IF m \in {4, 6, 9, 11} THEN 30 ELSE 31

RECURSIVE DaysBeforeMonth(_, _)
DaysBeforeMonth(y, m) ==
    IF m = 1 THEN 0 ELSE DaysBeforeMonth(y, m - 1) + DaysInMonth(y, m - 1)

DaysBeforeYear(y) ==
    LET p == y - 1 IN 365 * p + (p \div 4) - (p \div 100) + (p \div 400)

\* date.toordinal()
ToOrdinal(d) == DaysBeforeYear(d[1]) + DaysBeforeMonth(d[1], d[2]) + d[3]

RECURSIVE MonthOfDay(_, _, _)
MonthOfDay(y, m, n) ==
    IF n <= DaysInMonth(y, m) THEN <<y, m, n>>
    ELSE MonthOfDay(y, m + 1, n - DaysInMonth(y, m))

\* date.fromordinal(n)
FromOrdinal(n) ==
    LET n0   == n - 1
        n400 == n0 \div 146097
        r400 == n0 % 146097
        n100 == r400 \div 36524
        r100 == r400 % 36524
        n4   == r100 \div 1461
        r4   == r100 % 1461
        n1   == r4 \div 365
        r1   == r4 % 365
        year == n400 * 400 + 1 + n100 * 100 + n4 * 4 + n1
    IN  IF n1 = 4 \/ n100 = 4
        THEN <<year - 1, 12, 31>>
        ELSE MonthOfDay(year, 1, r1 + 1)

\* d - timedelta(days=n)
MinusDays(d, n) == FromOrdinal(ToOrdinal(d) - n)

\* f"{year}-{mm}-{dd}": the text of a date, as strftime("%Y-%m-%d") writes it
FormatDate(d) ==
    DigitsOf(d[1], 4) \o <<"-">> \o DigitsOf(d[2], 2) \o <<"-">> \o DigitsOf(d[3], 2)

----------------------------------------------------------------------------
(* NLPService: the fixed vocabulary tables *)

\* self.oceanographic_terms, in the dict's (insertion) order
oceanographic_terms == <<
    [param |-> "temperature",
     terms |-> { <<"t","e","m","p","e","r","a","t","u","r","e">>, <<"t","e","m","p">>,
                 <<"w","a","r","m">>, <<"c","o","l","d">>,
                 <<"t","h","e","r","m","a","l">> }],
    [param |-> "salinity",
     terms |-> { <<"s","a","l","i","n","i","t","y">>, <<"s","a","l","t">>,
                 <<"s","a","l">>, <<"s","a","l","i","n","e">> }],
    [param |-> "depth",
     terms |-> { <<"d","e","p","t","h">>, <<"d","e","e","p">>,
                 <<"s","h","a","l","l","o","w">>, <<"s","u","r","f","a","c","e">>,
                 <<"b","o","t","t","o","m">> }],
    [param |-> "current",
     terms |-> { <<"c","u","r","r","e","n","t">>, <<"f","l","o","w">>,
                 <<"v","e","l","o","c","i","t","y">>,
                 <<"c","i","r","c","u","l","a","t","i","o","n">> }],
    [param |-> "pressure",
     terms |-> { <<"p","r","e","s","s","u","r","e">>, <<"p","r","e","s","s">>,
                 <<"a","t","m">> }] >>

\* self.regions, in the dict's (insertion) order; bounds = [min_lat, max_lat, min_lon, max_lon]
regions == <<
    [name |-> "pacific",  key |-> <<"p","a","c","i","f","i","c">>,
     center_lat |-> 0,   center_lon |-> -150, bounds |-> <<-60, 60, -180, -100>>],
    [name |-> "atlantic", key |-> <<"a","t","l","a","n","t","i","c">>,
     center_lat |-> 20,  center_lon |-> -30,  bounds |-> <<-60, 70, -80, 20>>],
    [name |-> "indian",   key |-> <<"i","n","d","i","a","n">>,
     center_lat |-> -20, center_lon |-> 80,   bounds |-> <<-60, 30, 40, 120>>],
    [name |-> "arctic",   key |-> <<"a","r","c","t","i","c">>,
     center_lat |-> 80,  center_lon |-> 0,    bounds |-> <<66, 90, -180, 180>>],
    [name |-> "southern", key |-> <<"s","o","u","t","h","e","r","n">>,
     center_lat |-> -60, center_lon |-> 0,    bounds |-> <<-90, -60, -180, 180>>] >>

\* keywords the parser looks for
KwNorth   == <<"n","o","r","t","h">>
KwSouth   == <<"s","o","u","t","h">>
KwEast    == <<"e","a","s","t">>
KwWest    == <<"w","e","s","t">>
KwRecent  == <<"r","e","c","e","n","t">>
KwLatest  == <<"l","a","t","e","s","t">>
KwLastYear == <<"l","a","s","t"," ","y","e","a","r">>
KwSurface == <<"s","u","r","f","a","c","e">>
KwDeep    == <<"d","e","e","p">>
KwTrend   == <<"t","r","e","n","d">>
KwChange  == <<"c","h","a","n","g","e">>
KwCompare == <<"c","o","m","p","a","r","e">>
KwDifference == <<"d","i","f","f","e","r","e","n","c","e">>
KwPattern == <<"p","a","t","t","e","r","n">>
KwDistribution == <<"d","i","s","t","r","i","b","u","t","i","o","n">>

----------------------------------------------------------------------------
(* NLPService: regular expressions *)

\* End (1-based index of the last character) of the run of digits that
\* starts at t[i]; i - 1 when t[i] is no digit.
RECURSIVE DigitRunEnd(_, _)
DigitRunEnd(t, i) ==
    IF i <= Len(t) /\ IsDigit(t[i]) THEN DigitRunEnd(t, i + 1) ELSE i - 1

\* The same for a run of white space (\s*)
RECURSIVE SpaceRunEnd(_, _)
SpaceRunEnd(t, i) ==
    IF i <= Len(t) /\ IsSpace(t[i]) THEN SpaceRunEnd(t, i + 1) ELSE i - 1

\* The degree sign, one character of a text
DegreeSign == "deg"

\* re.match at position i of  (\d+(?:\.\d+)?)\s*[deg]?\s*[<letters>] :
\* <<>> when there is no match at i, else <<number, matched letter>>.
\* The texts of the model hold no ".", so the optional fraction never matches.
CoordMatchAt(t, i, letters) ==
    IF ~(i <= Len(t) /\ IsDigit(t[i])) THEN <<>>
    ELSE
    LET e1 == DigitRunEnd(t, i)
        e2 == SpaceRunEnd(t, e1 + 1)
        e3 == IF e2 + 1 <= Len(t) /\ t[e2 + 1] = DegreeSign THEN e2 + 1 ELSE e2
        e4 == SpaceRunEnd(t, e3 + 1)
    IN  IF e4 + 1 <= Len(t) /\ t[e4 + 1] \in letters
        THEN <<NumberOf(SubSeq(t, i, e1)), t[e4 + 1]>>
        ELSE <<>>

\* re.search: the match at the leftmost position that has one
CoordSearch(t, letters) ==
    LET hits == {i \in 1..Len(t) : CoordMatchAt(t, i, letters) # <<>>}
    IN  IF hits = {} THEN <<>>
        ELSE CoordMatchAt(t, CHOOSE i \in hits : \A j \in hits : i <= j, letters)

\* re.search(r'(20\d{2})', t): <<>> or <<year>>
YearSearch(t) ==
    LET hits == {i \in 1..(Len(t) - 3) :
                    /\ t[i] = "2" /\ t[i + 1] = "0"
                    /\ IsDigit(t[i + 2]) /\ IsDigit(t[i + 3])}
    IN  IF hits = {} THEN <<>>
        ELSE LET i == CHOOSE i \in hits : \A j \in hits : i <= j
             IN  <<2000 + 10 * DigitVal(t[i + 2]) + DigitVal(t[i + 3])>>

----------------------------------------------------------------------------
(* NLPService *)

\* Variant: no default parameter when no synonym occurs
ExtractParametersNoDefault(query_lower) ==
    LET names == [k \in 1..Len(oceanographic_terms) |-> k]
        found == SelectSeq(names,
                    LAMBDA k : \E term \in oceanographic_terms[k].terms :
                                    Contains(query_lower, term))
    IN  [j \in 1..Len(found) |-> oceanographic_terms[found[j]].param]

\* NLPService._extract_parameters: the parameters with a synonym in the text,
\* in table order; ["temperature"] when there is none
_extract_parameters(query_lower) ==
    LET names == [k \in 1..Len(oceanographic_terms) |-> k]
        found == SelectSeq(names,
                    LAMBDA k : \E term \in oceanographic_terms[k].terms :
                                    Contains(query_lower, term))
        parameters == [j \in 1..Len(found) |-> oceanographic_terms[found[j]].param]
    IN  IF parameters = <<>> THEN <<"temperature">> ELSE parameters

\* Variant: a matched region is final; coordinates and directional keywords
\* are not looked at
ExtractSpatialRegionOnly(query_lower) ==
    LET hits == {k \in 1..Len(regions) : Contains(query_lower, regions[k].key)}
        First(r) == [region |-> r.name, center_lat |-> r.center_lat,
                     center_lon |-> r.center_lon, bounds |-> r.bounds]
    IN  IF hits = {} THEN EmptyDict
        ELSE First(regions[CHOOSE k \in hits : \A j \in hits : k <= j])

\* NLPService._extract_spatial_info
_extract_spatial_info(query_lower) ==
    LET hits == {k \in 1..Len(regions) : Contains(query_lower, regions[k].key)}
        \* for region, bounds in self.regions.items(): ... break
        s0 == IF hits = {} THEN EmptyDict
              ELSE LET r == regions[CHOOSE k \in hits : \A j \in hits : k <= j]
                   IN  [region |-> r.name, center_lat |-> r.center_lat,
                        center_lon |-> r.center_lon, bounds |-> r.bounds]
        \* if lat_match and lon_match: ...
        Centre(s, lat, lon) ==
            Update(s, [center_lat |-> lat, center_lon |-> lon,
                       bounds |-> <<lat - 5, lat + 5, lon - 5, lon + 5>>])
        Coordinates(s, lat_match, lon_match) ==
            IF lat_match # <<>> /\ lon_match # <<>>
            THEN Centre(s,
                    IF lat_match[2] = "s" THEN 0 - lat_match[1] ELSE lat_match[1],
                    IF lon_match[2] = "w" THEN 0 - lon_match[1] ELSE lon_match[1])
            ELSE s
        \* if 'north' in query_lower: ... elif 'south' in query_lower: ...
        NorthSouth(s) ==
            IF Contains(query_lower, KwNorth) THEN Put(s, "center_lat", 45)
            ELSE IF Contains(query_lower, KwSouth) THEN Put(s, "center_lat", -45)
            ELSE s
        \* if 'east' in query_lower: ... elif 'west' in query_lower: ...
        EastWest(s) ==
            IF Contains(query_lower, KwEast) THEN Put(s, "center_lon", 90)
            ELSE IF Contains(query_lower, KwWest) THEN Put(s, "center_lon", -90)
            ELSE s
    IN  EastWest(NorthSouth(Coordinates(s0,
            CoordSearch(query_lower, {"n", "s"}),
            CoordSearch(query_lower, {"e", "w"}))))

\* f"{year}-01-01" .. f"{year}-12-31"
YearRange(year) ==
    [start_time |-> DigitsOf(year, 1) \o <<"-","0","1","-","0","1">>,
     end_time   |-> DigitsOf(year, 1) \o <<"-","1","2","-","3","1">>]

\* NLPService._extract_temporal_info; nw is datetime.now()
_extract_temporal_info(query_lower, nw) ==
    LET year_match == YearSearch(query_lower)
        t0 == IF year_match # <<>> THEN YearRange(year_match[1]) ELSE EmptyDict
    IN  IF Contains(query_lower, KwRecent) \/ Contains(query_lower, KwLatest)
        THEN Update(t0, [start_time |-> FormatDate(MinusDays(nw, 30)),
                         end_time   |-> FormatDate(nw)])
        ELSE IF Contains(query_lower, KwLastYear)
        THEN Update(t0, YearRange(nw[1] - 1))
        ELSE t0

\* NLPService._determine_query_type
_determine_query_type(parsed) ==
    LET query_lower == Lower(parsed.original_query)
    IN  IF Contains(query_lower, KwTrend) \/ Contains(query_lower, KwChange)
        THEN "trend_analysis"
        ELSE IF Contains(query_lower, KwCompare) \/ Contains(query_lower, KwDifference)
        THEN "comparison"
        ELSE IF Contains(query_lower, KwPattern) \/ Contains(query_lower, KwDistribution)
        THEN "pattern_analysis"
        ELSE IF DOMAIN parsed.spatial # {} THEN "spatial_query"
        ELSE IF DOMAIN parsed.temporal # {} THEN "temporal_query"
        ELSE "general"

\* NLPService._get_default_spatial_bounds
_get_default_spatial_bounds ==
    [region |-> "global", center_lat |-> 0, center_lon |-> 0,
     bounds |-> <<-90, 90, -180, 180>>]

\* NLPService._get_default_temporal_range
_get_default_temporal_range(nw) ==
    [start_time |-> FormatDate(MinusDays(nw, 365)), end_time |-> FormatDate(nw)]

\* Variant: the depth terms tested in the other order, "deep" before "surface"
ConvertDeepFirst(parsed) ==
    LET spatial  == parsed.spatial
        temporal == parsed.temporal
        query_lower == Lower(parsed.original_query)
        p0 == [type |-> parsed.type,
               parameters |-> parsed.parameters,
               center_lat |-> Get(spatial, "center_lat", 0),
               center_lon |-> Get(spatial, "center_lon", 0)]
        p1 == IF HasKey(spatial, "bounds")
              THEN Update(p0, [min_lat |-> spatial["bounds"][1],
                               max_lat |-> spatial["bounds"][2],
                               min_lon |-> spatial["bounds"][3],
                               max_lon |-> spatial["bounds"][4]])
              ELSE p0
        p2 == IF HasKey(temporal, "start_time")
              THEN Put(p1, "start_time", temporal["start_time"]) ELSE p1
        p3 == IF HasKey(temporal, "end_time")
              THEN Put(p2, "end_time", temporal["end_time"]) ELSE p2
    IN  IF Contains(query_lower, KwDeep)
        THEN Update(p3, [min_depth |-> 1000, max_depth |-> 5000])
        ELSE IF Contains(query_lower, KwSurface)
        THEN Update(p3, [min_depth |-> 0, max_depth |-> 50])
        ELSE p3

\* NLPService._convert_to_query_params
_convert_to_query_params(parsed) ==
    LET spatial  == parsed.spatial
        temporal == parsed.temporal
        query_lower == Lower(parsed.original_query)
        p0 == [type |-> parsed.type,
               parameters |-> parsed.parameters,
               center_lat |-> Get(spatial, "center_lat", 0),
               center_lon |-> Get(spatial, "center_lon", 0)]
        p1 == IF HasKey(spatial, "bounds")
              THEN Update(p0, [min_lat |-> spatial["bounds"][1],
                               max_lat |-> spatial["bounds"][2],
                               min_lon |-> spatial["bounds"][3],
                               max_lon |-> spatial["bounds"][4]])
              ELSE p0
        p2 == IF HasKey(temporal, "start_time")
              THEN Put(p1, "start_time", temporal["start_time"]) ELSE p1
        p3 == IF HasKey(temporal, "end_time")
              THEN Put(p2, "end_time", temporal["end_time"]) ELSE p2
    IN  IF Contains(query_lower, KwSurface)
        THEN Update(p3, [min_depth |-> 0, max_depth |-> 50])
        ELSE IF Contains(query_lower, KwDeep)
        THEN Update(p3, [min_depth |-> 1000, max_depth |-> 5000])
        ELSE p3

\* NLPService._get_default_query_params
_get_default_query_params(nw) ==
    [type |-> "general", parameters |-> <<"temperature">>,
     center_lat |-> 0, center_lon |-> 0,
     min_lat |-> -90, max_lat |-> 90, min_lon |-> -180, max_lon |-> 180,
     start_time |-> FormatDate(MinusDays(nw, 365)),
     end_time |-> FormatDate(nw)]

\* Variant: the category is determined after the defaults have been filled in
ParseTextTypeLast(text, nw) ==
    LET Parsed(query_lower) ==
            [original_query |-> text,
             type |-> "general",
             parameters |-> _extract_parameters(query_lower),
             spatial |-> _extract_spatial_info(query_lower),
             temporal |-> _extract_temporal_info(query_lower, nw),
             filters |-> EmptyDict]
        WithType(parsed) == [parsed EXCEPT !.type = _determine_query_type(parsed)]
        WithSpatial(parsed) ==
            IF DOMAIN parsed.spatial = {}
            THEN [parsed EXCEPT !.spatial = _get_default_spatial_bounds]
            ELSE parsed
        WithTemporal(parsed) ==
            IF DOMAIN parsed.temporal = {}
            THEN [parsed EXCEPT !.temporal = _get_default_temporal_range(nw)]
            ELSE parsed
    IN  _convert_to_query_params(
            WithType(WithTemporal(WithSpatial(Parsed(Lower(text))))))

\* The try block of NLPService.parse_query, for a text
ParseText(text, nw) ==
    LET Parsed(query_lower) ==
            [original_query |-> text,
             type |-> "general",
             parameters |-> _extract_parameters(query_lower),
             spatial |-> _extract_spatial_info(query_lower),
             temporal |-> _extract_temporal_info(query_lower, nw),
             filters |-> EmptyDict]
        \* parsed["type"] = self._determine_query_type(parsed)
        WithType(parsed) == [parsed EXCEPT !.type = _determine_query_type(parsed)]
        \* if not parsed["spatial"]: ...
        WithSpatial(parsed) ==
            IF DOMAIN parsed.spatial = {}
            THEN [parsed EXCEPT !.spatial = _get_default_spatial_bounds]
            ELSE parsed
        \* if not parsed["temporal"]: ...
        WithTemporal(parsed) ==
            IF DOMAIN parsed.temporal = {}
            THEN [parsed EXCEPT !.temporal = _get_default_temporal_range(nw)]
            ELSE parsed
    IN  _convert_to_query_params(
            WithTemporal(WithSpatial(WithType(Parsed(Lower(text))))))

\* Outcome of the try block of NLPService.parse_query.  query_text is the
\* Python value passed in: [kind |-> "str", chars |-> text], or a value that
\* is no string, on which query_text.lower() raises AttributeError.
ParseTry(query_text, nw) ==
    IF query_text.kind = "str"
    THEN [raised |-> FALSE, value |-> ParseText(query_text.chars, nw)]
    ELSE [raised |-> TRUE, error |-> "AttributeError: object has no attribute 'lower'"]

\* Variant: parse_query without its except clause
ParseQueryNoExcept(query_text, nw) == ParseTry(query_text, nw)

\* NLPService.parse_query: the try block, and the except clause that answers
\* any exception with the default parameters
parse_query(query_text, nw) ==
    LET Except(r) ==
            IF r.raised
            THEN [raised |-> FALSE, value |-> _get_default_query_params(nw)]
            ELSE r
    IN  Except(ParseTry(query_text, nw))

----------------------------------------------------------------------------
(* Inputs *)

\* Words and phrases the query texts of the model are made of
Vocabulary == {
    <<"P","a","c","i","f","i","c">>,
    <<"a","r","c","t","i","c">>,
    <<"s","o","u","t","h","e","r","n">>,
    <<"n","o","r","t","h">>,
    <<"s","o","u","t","h">>,
    <<"e","a","s","t">>,
    <<"w","e","s","t">>,
    <<"8","9","n">>,
    <<"1","7","9","e">>,
    <<"2","0","2","2">>,
    <<"1","9","9","9">>,
    <<"r","e","c","e","n","t">>,
    <<"l","a","t","e","s","t">>,
    <<"l","a","s","t"," ","y","e","a","r">>,
    <<"s","a","l","i","n","i","t","y">>,
    <<"t","e","m","p","e","r","a","t","u","r","e">>,
    <<"d","e","e","p">>,
    <<"s","u","r","f","a","c","e">>,
    <<"t","r","e","n","d">>,
    <<"c","o","m","p","a","r","e">>,
    <<"p","a","t","t","e","r","n">>,
    <<"h","e","l","l","o">> }

\* The words the query texts of the routing specification are made of
RouterVocabulary == {
    <<"P","a","c","i","f","i","c">>,
    <<"n","o","r","t","h">>,
    <<"8","9","n">>,
    <<"1","7","9","e">>,
    <<"d","e","e","p">> }

\* Texts of exactly k words of V, joined by single spaces
RECURSIVE TextsOfLen(_, _)
TextsOfLen(V, k) ==
    IF k = 0 THEN {<<>>}
    ELSE IF k = 1 THEN V
    ELSE {t \o <<" ">> \o w : t \in TextsOfLen(V, k - 1), w \in V}

TextsUpTo(V, n) == UNION {TextsOfLen(V, k) : k \in 0..n}

\* Python values passed as query_text
Str(t) == [kind |-> "str", chars |-> t]
NoneInput == [kind |-> "none"]     \* None: neither sliceable nor a string
ListInput == [kind |-> "list"]     \* a list: sliceable, but has no .lower()

ParserInputs == {Str(t) : t \in TextsUpTo(Vocabulary, MaxWords)} \cup {NoneInput, ListInput}

RouterInputs == {Str(t) : t \in TextsUpTo(RouterVocabulary, MaxRouterWords)}
                    \cup {NoneInput, ListInput}

\* Dates datetime.now() is sampled at
NowSamples == {<<2024, 3, 15>>, <<2026, 1, 10>>}

\* The date datetime.now() returns in the runs of the routing specification
RouterNow == <<2024, 3, 15>>

----------------------------------------------------------------------------
(* Measurements.  Numbers are integers: latitude/longitude in degrees,     *)
(* depth in metres, temperature and salinity in hundredths (round(x, 2)),  *)
(* pressure in tenths (round(x, 1)).                                       *)

None == <<>>
Some(v) == <<v>>

\* Python truthiness of an optional number: not None and not 0
TruthyNum(o) == o # None /\ o[1] # 0

Abs(x) == IF x < 0 THEN 0 - x ELSE x

\* Values the random generator is sampled at, for one generated record:
\* uniform(-3, 3) for dlat/dlon, uniform(0, 2000) for depth,
\* uniform(-2, 2) for dtemp, uniform(-0.5, 0.5) for dsal,
\* randint(0, 365) for days, randint(1000, 9999) for id
RandomDraws == {
    [dlat |-> -2, dlon |-> -2, depth |-> 0,    dtemp |-> -150, dsal |-> -40,
     days |-> 0,   id |-> 1000],
    [dlat |-> 2,  dlon |-> 2,  depth |-> 2000, dtemp |-> 150,  dsal |-> 40,
     days |-> 365, id |-> 9999] }

\* for i in range(50)
SampleCount == 50

\* for i in range(20)
SimulatedCount == 20

\* NCDatabaseService._get_regional_characteristics
_get_regional_characteristics(lat, lon) ==
    IF Abs(lat) < 20 THEN [surface_temp |-> 2800, salinity |-> 3500]
    ELSE IF Abs(lat) < 40 THEN [surface_temp |-> 1800, salinity |-> 3450]
    ELSE [surface_temp |-> 200, salinity |-> 3400]

\* One record of NCDatabaseService._generate_sample_data, for one draw
SampleRecord(center_lat, center_lon, region_data, nw, r) ==
    [latitude  |-> Some(center_lat + r.dlat),
     longitude |-> Some(center_lon + r.dlon),
     depth     |-> Some(r.depth),
     temperature |-> Some(region_data.surface_temp - (r.depth \div 2) + r.dtemp),
     salinity  |-> Some(region_data.salinity + r.dsal),
     pressure  |-> Some((r.depth * 41) \div 4),
     measurement_time |-> FormatDate(MinusDays(nw, r.days)),
     platform_id |-> <<"NC_FLOAT_", r.id>>,
     data_source |-> "local_database",
     quality_flag |-> 1]

\* NCDatabaseService._generate_sample_data; the random generator gives draw a
\* to the records of odd index and another draw, b, to those of even index
_generate_sample_data(parsed_query, nw, a, b) ==
    LET center_lat == Get(parsed_query, "center_lat", 20)
        center_lon == Get(parsed_query, "center_lon", -30)
        region_data == _get_regional_characteristics(center_lat, center_lon)
    IN  [k \in 1..SampleCount |->
            SampleRecord(center_lat, center_lon, region_data, nw,
                         IF k % 2 = 1 THEN a ELSE b)]

----------------------------------------------------------------------------
(* NCDatabaseService: the store *)

\* datetime.fromisoformat on a "YYYY-MM-DD" text: <<year, month, day>>
FromIsoFormat(t) ==
    <<NumberOf(SubSeq(t, 1, 4)), NumberOf(SubSeq(t, 6, 7)), NumberOf(SubSeq(t, 9, 10))>>

\* Rows of ocean_measurements: latitude, longitude, depth and measurement_time
\* are NOT NULL; measurement_time is <<year, month, day, hour>>
StoreRows == <<
    [latitude |-> 0, longitude |-> -150, depth |-> 10,
     temperature |-> Some(0), salinity |-> Some(3500), pressure |-> Some(100),
     measurement_time |-> <<2024, 3, 1, 12>>, platform_id |-> <<"F", 1>>, quality_flag |-> 1],
    [latitude |-> 80, longitude |-> 0, depth |-> 1500,
     temperature |-> None, salinity |-> Some(3400), pressure |-> None,
     measurement_time |-> <<2025, 12, 20, 0>>, platform_id |-> <<"F", 2>>, quality_flag |-> 2],
    [latitude |-> 10, longitude |-> 20, depth |-> 0,
     temperature |-> Some(2500), salinity |-> None, pressure |-> Some(0),
     measurement_time |-> <<2023, 6, 1, 0>>, platform_id |-> <<"F", 3>>, quality_flag |-> 1] >>

\* Contents of the table the model is run with
StoreSamples == {<<>>, StoreRows}

\* measurement_time >= datetime(start) (midnight)
TimeAtOrAfter(mt, d) == ToOrdinal(<<mt[1], mt[2], mt[3]>>) >= ToOrdinal(d)

\* measurement_time <= datetime(end) (midnight)
TimeAtOrBefore(mt, d) ==
    LET o == ToOrdinal(<<mt[1], mt[2], mt[3]>>)
    IN  o < ToOrdinal(d) \/ (o = ToOrdinal(d) /\ mt[4] = 0)

\* The WHERE clause NCDatabaseService._build_database_query builds
RowMatches(row, parsed_query) ==
    /\ (HasKey(parsed_query, "min_lat") /\ HasKey(parsed_query, "max_lat"))
          => (row.latitude >= parsed_query["min_lat"] /\ row.latitude <= parsed_query["max_lat"])
    /\ (HasKey(parsed_query, "min_lon") /\ HasKey(parsed_query, "max_lon"))
          => (row.longitude >= parsed_query["min_lon"] /\ row.longitude <= parsed_query["max_lon"])
    /\ HasKey(parsed_query, "start_time")
          => TimeAtOrAfter(row.measurement_time, FromIsoFormat(parsed_query["start_time"]))
    /\ HasKey(parsed_query, "end_time")
          => TimeAtOrBefore(row.measurement_time, FromIsoFormat(parsed_query["end_time"]))
    /\ HasKey(parsed_query, "min_depth") => row.depth >= parsed_query["min_depth"]
    /\ HasKey(parsed_query, "max_depth") => row.depth <= parsed_query["max_depth"]
    /\ (\E k \in 1..Len(Get(parsed_query, "parameters", <<>>)) :
            parsed_query["parameters"][k] = "temperature") => row.temperature # None
    /\ (\E k \in 1..Len(Get(parsed_query, "parameters", <<>>)) :
            parsed_query["parameters"][k] = "salinity") => row.salinity # None

\* Time of a row as one number, for ORDER BY
TimeKey(mt) == ToOrdinal(<<mt[1], mt[2], mt[3]>>) * 24 + mt[4]

\* rows sorted by measurement_time, most recent first
RECURSIVE SortDesc(_)
SortDesc(rows) ==
    IF rows = <<>> THEN <<>>
    ELSE LET k == CHOOSE k \in 1..Len(rows) :
                    \A j \in 1..Len(rows) :
                        \/ TimeKey(rows[k].measurement_time) > TimeKey(rows[j].measurement_time)
                        \/ (TimeKey(rows[k].measurement_time) = TimeKey(rows[j].measurement_time)
                            /\ k <= j)
         IN  <<rows[k]>> \o SortDesc(SubSeq(rows, 1, k - 1) \o SubSeq(rows, k + 1, Len(rows)))

\* NCDatabaseService._build_database_query followed by .limit(1000).all()
RunDatabaseQuery(table, parsed_query) ==
    LET Limit(hit, n) == SubSeq(hit, 1, IF Len(hit) < n THEN Len(hit) ELSE n)
    IN  Limit(SortDesc(SelectSeq(table, LAMBDA row : RowMatches(row, parsed_query))), 1000)

\* datetime.isoformat() of <<year, month, day, hour>>
IsoFormat(mt) ==
    FormatDate(<<mt[1], mt[2], mt[3]>>) \o <<"T">> \o DigitsOf(mt[4], 2)
        \o <<":","0","0",":","0","0">>

\* float(x) if x else None
FloatIfTruthy(o) == IF TruthyNum(o) THEN o ELSE None

\* NCDatabaseService._format_database_result
_format_database_result(result) ==
    [latitude  |-> Some(result.latitude),
     longitude |-> Some(result.longitude),
     depth     |-> FloatIfTruthy(Some(result.depth)),
     temperature |-> FloatIfTruthy(result.temperature),
     salinity  |-> FloatIfTruthy(result.salinity),
     pressure  |-> FloatIfTruthy(result.pressure),
     measurement_time |-> IsoFormat(result.measurement_time),
     platform_id |-> result.platform_id,
     data_source |-> "local_database",
     quality_flag |-> result.quality_flag]

\* What the storage does when NCDatabaseService.query_data runs
StorageOutcomes == {"ok", "connect_error", "filter_error"}

\* The try block of NCDatabaseService.query_data: the measurements it returns,
\* or the exception the storage raises in it
QueryDataTry(table, parsed_query, nw, storage, a, b) ==
    IF storage # "ok"
    THEN [raised |-> TRUE, error |-> storage]
    ELSE LET Format(results) ==
                 [k \in 1..Len(results) |-> _format_database_result(results[k])]
             \* if not measurements: ...
             OrSample(measurements) ==
                 IF measurements = <<>>
                 THEN _generate_sample_data(parsed_query, nw, a, b)
                 ELSE measurements
         IN  [raised |-> FALSE,
              value |-> OrSample(Format(RunDatabaseQuery(table, parsed_query)))]

\* Variant: query_data without its except clause
QueryDataNoExcept(table, parsed_query, nw, storage, a, b) ==
    QueryDataTry(table, parsed_query, nw, storage, a, b)

\* NCDatabaseService.query_data: the try block, and the except clause that
\* answers any exception with generated sample data
query_data(table, parsed_query, nw, storage, a, b) ==
    LET Except(r) ==
            IF r.raised
            THEN [raised |-> FALSE, value |-> _generate_sample_data(parsed_query, nw, a, b)]
            ELSE r
    IN  Except(QueryDataTry(table, parsed_query, nw, storage, a, b))

----------------------------------------------------------------------------
(* ExternalAPIService *)

\* Values the random generator is sampled at, for one simulated record:
\* uniform(-2, 2) for dlat/dlon, uniform(0, 2000) for depth, uniform(-5, 15)
\* for dtemp, uniform(-2, 2) for dsal, uniform(0, 200) for pressure
SimulatedDraws == {
    [dlat |-> -1, dlon |-> -1, depth |-> 0,    dtemp |-> -400, dsal |-> -100,
     pressure |-> 0,    days |-> 0,   id |-> 1000],
    [dlat |-> 1,  dlon |-> 1,  depth |-> 2000, dtemp |-> 1400, dsal |-> 100,
     pressure |-> 1990, days |-> 365, id |-> 9999] }

\* One record of ExternalAPIService._simulate_api_response
SimulatedRecord(base_lat, base_lon, nw, r) ==
    [latitude  |-> Some(base_lat + r.dlat),
     longitude |-> Some(base_lon + r.dlon),
     depth     |-> Some(r.depth),
     temperature |-> Some(1500 + r.dtemp),
     salinity  |-> Some(3500 + r.dsal),
     pressure  |-> Some(r.pressure),
     measurement_time |-> MinusDays(nw, r.days),
     platform_id |-> <<"API_FLOAT_", r.id>>,
     data_source |-> "live_api"]

\* The measurements ExternalAPIService._simulate_api_response returns when
\* it does not raise
_simulate_api_response(parsed_query, nw, a, b) ==
    LET base_lat == Get(parsed_query, "center_lat", 0)
        base_lon == Get(parsed_query, "center_lon", 0)
    IN  [k \in 1..SimulatedCount |->
            SimulatedRecord(base_lat, base_lon, nw, IF k % 2 = 1 THEN a ELSE b)]

\* Records ExternalAPIService._parse_argo_netcdf_data generates for one file:
\* latitude uniform(-60, 60), longitude uniform(-180, 180), depth uniform(0, 2000),
\* measurement_time within the last 24 hours
ArgoLiveRecords(nw) == <<
    [platform_id |-> <<"argo_float_", 1000>>,
     measurement_time |-> IsoFormat(<<nw[1], nw[2], nw[3], 1>>),
     latitude |-> Some(-59), longitude |-> Some(-179), depth |-> Some(5),
     temperature |-> Some(-200), salinity |-> Some(3000), pressure |-> Some(0),
     data_source |-> "argo_live", data_mode |-> "real-time",
     file_source |-> "latest_data", quality_flag |-> "good"],
    [platform_id |-> <<"argo_float_", 9999>>,
     measurement_time |-> IsoFormat(<<nw[1], nw[2], nw[3], 0>>),
     latitude |-> Some(59), longitude |-> Some(179), depth |-> Some(1990),
     temperature |-> Some(3000), salinity |-> Some(3700), pressure |-> Some(20000),
     data_source |-> "argo_live", data_mode |-> "real-time",
     file_source |-> "latest_data", quality_flag |-> "probably_good"] >>

\* ExternalAPIService._filter_argo_data
_filter_argo_data(measurements, parsed_query) ==
    LET f1 == IF HasKey(parsed_query, "latitude") /\ HasKey(parsed_query, "longitude")
              THEN LET radius == Get(parsed_query, "radius", 2)
                   IN  SelectSeq(measurements, LAMBDA m :
                          /\ Abs(m.latitude[1] - parsed_query["latitude"]) <= radius
                          /\ Abs(m.longitude[1] - parsed_query["longitude"]) <= radius)
              ELSE measurements
    IN  IF HasKey(parsed_query, "min_depth") \/ HasKey(parsed_query, "max_depth")
        THEN SelectSeq(f1, LAMBDA m :
                /\ Get(parsed_query, "min_depth", 0) <= m.depth[1]
                /\ m.depth[1] <= Get(parsed_query, "max_depth", 10000))
        ELSE f1

\* A JSON value of a response row: None (null), Some(n) (a number), or
\* Text(s) (a string that is no number)
Text(s) == <<"text", s>>

\* Python truthiness of a JSON value: not null, not 0, not ""
PyTruthy(v) == (Len(v) = 1 /\ v[1] # 0) \/ (Len(v) = 2 /\ v[2] # "")

\* a or b
PyOr(a, b) == IF PyTruthy(a) THEN a ELSE b

\* str.lower() on the column names of the responses of the model
ColumnLower(name) ==
    CASE name = "LATITUDE" -> "latitude"
      [] name = "Temp"     -> "temp"
      [] OTHER             -> name

\* The dict the parsers build from one row: lower-cased column name -> value,
\* over the columns the row has a value for
RowDict(columns, row) ==
    LET n == IF Len(row) < Len(columns) THEN Len(row) ELSE Len(columns)
        Last(name) == CHOOSE i \in 1..n :
                        /\ ColumnLower(columns[i]) = name
                        /\ \A j \in 1..n : ColumnLower(columns[j]) = name => j <= i
    IN  [name \in {ColumnLower(columns[i]) : i \in 1..n} |-> row[Last(name)]]

\* ExternalAPIService._safe_float: None for null, "" and what float() refuses
_safe_float(value) == IF Len(value) = 1 THEN value ELSE None

\* ExternalAPIService._parse_argo_time, on null or a time in a known format
_parse_argo_time(time_value) == IF time_value = None THEN None ELSE time_value[1]

\* One row of ExternalAPIService._parse_argo_response, standardized
ArgoStandardized(measurement, row_idx) ==
    [latitude  |-> _safe_float(PyOr(Get(measurement, "latitude", None),
                                    Get(measurement, "lat", None))),
     longitude |-> _safe_float(PyOr(Get(measurement, "longitude", None),
                                    Get(measurement, "lon", None))),
     depth     |-> _safe_float(PyOr(PyOr(Get(measurement, "pressure", None),
                                         Get(measurement, "pres", None)), Some(0))),
     temperature |-> _safe_float(PyOr(Get(measurement, "temperature", None),
                                      Get(measurement, "temp", None))),
     salinity  |-> _safe_float(PyOr(Get(measurement, "salinity", None),
                                    Get(measurement, "psal", None))),
     pressure  |-> _safe_float(PyOr(Get(measurement, "pressure", None),
                                    Get(measurement, "pres", None))),
     measurement_time |-> _parse_argo_time(Get(measurement, "time", None)),
     platform_id |-> <<"ARGO_", row_idx>>,
     data_source |-> "argo_live",
     quality_flag |-> Get(measurement, "quality_flag", 1),
     instrument_type |-> "Argo Float"]

\* ExternalAPIService._parse_argo_response
_parse_argo_response(data) ==
    IF ~(HasKey(data, "table") /\ HasKey(data["table"], "rows")) THEN <<>>
    ELSE LET columns == data["table"].columnNames
             rows == data["table"].rows
             standardized == [k \in 1..Len(rows) |->
                                ArgoStandardized(RowDict(columns, rows[k]), k - 1)]
         IN  SelectSeq(standardized, LAMBDA m :
                /\ m.latitude # None
                /\ m.longitude # None
                /\ (m.temperature # None \/ m.salinity # None))

\* dict.pop(old) stored under new, when old is a key
Rename(d, old, new) ==
    IF HasKey(d, old)
    THEN [k \in (DOMAIN d \ {old}) \cup {new} |-> IF k = new THEN d[old] ELSE d[k]]
    ELSE d

\* ExternalAPIService._parse_erddap_response
_parse_erddap_response(data) ==
    IF ~(HasKey(data, "table") /\ HasKey(data["table"], "rows")) THEN <<>>
    ELSE LET columns == data["table"].columnNames
             rows == data["table"].rows
         IN  [k \in 1..Len(rows) |->
                Put(Rename(Rename(Rename(Rename(RowDict(columns, rows[k]),
                        "temp", "temperature"), "sal", "salinity"),
                        "lat", "latitude"), "lon", "longitude"),
                    "data_source", "live_api")]

\* A response of the tabular Argo endpoint: a good row, a row without
\* latitude, a row without temperature and salinity, a row on the equator,
\* a row whose latitude is no number
ArgoResponse ==
    [table |-> [columnNames |-> <<"LATITUDE", "longitude", "Temp", "psal", "pres", "time">>,
                rows |-> << <<Some(12), Some(34), Some(1000), None, Some(100), Some(<<2024, 1, 1, 0>>)>>,
                            <<None,     Some(34), Some(1000), Some(3500), Some(100), Some(<<2024, 1, 1, 0>>)>>,
                            <<Some(12), Some(35), None, None, Some(100), Some(<<2024, 1, 1, 0>>)>>,
                            <<Some(0),  Some(36), Some(2800), Some(3500), Some(5), None>>,
                            <<Text("n/a"), Some(37), Some(1000), Some(3500), Some(100), None>> >>]]

\* A response of the ERDDAP endpoint: a good row, a row without latitude,
\* a row without temperature and salinity
ErddapResponse ==
    [table |-> [columnNames |-> <<"lat", "lon", "Temp", "sal">>,
                rows |-> << <<Some(-5), Some(100), Some(2000), Some(3400)>>,
                            <<None,     Some(100), Some(2000), Some(3400)>>,
                            <<Some(-5), Some(101), None, None>> >>]]

\* What the network lets ExternalAPIService._fetch_argo_data get:
\* live: the measurements parsed from the downloaded latest files;
\* erddap: the measurements of _fetch_argo_erddap (and its fallback datasets)
ArgoNetwork(nw) == {
    [live |-> <<>>,                erddap |-> <<>>],
    [live |-> <<>>,                erddap |-> _parse_argo_response(ArgoResponse)],
    [live |-> ArgoLiveRecords(nw), erddap |-> <<>>] }

\* ExternalAPIService._fetch_argo_data (every exception in it ends in [])
_fetch_argo_data(parsed_query, net) ==
    LET live_data == _filter_argo_data(net.live, parsed_query)
    IN  IF live_data # <<>> THEN live_data ELSE net.erddap

\* A response of the ERDDAP endpoint none of whose rows has both coordinates:
\* one has the latitude only, the other the longitude only
ErddapPartialResponse ==
    [table |-> [columnNames |-> <<"lat", "lon", "Temp", "sal">>,
                rows |-> << <<Some(-5), None,      Some(2000), Some(3400)>>,
                            <<None,     Some(100), Some(2000), Some(3400)>> >>]]

\* What the network lets ExternalAPIService._fetch_erddap_data do: return the
\* parsed rows, or raise (transport error, raise_for_status, bad JSON)
ErddapNetwork == {
    [raised |-> TRUE,  error |-> "HTTPStatusError"],
    [raised |-> FALSE, value |-> <<>>],
    [raised |-> FALSE, value |-> _parse_erddap_response(ErddapResponse)],
    [raised |-> FALSE, value |-> _parse_erddap_response(ErddapPartialResponse)] }

----------------------------------------------------------------------------
(* DataRouterService: pure parts *)

PyNone == [kind |-> "none"]
PyList(items) == [kind |-> "list", items |-> items]
PyDict(d) == [kind |-> "dict", d |-> d]
PyOther == [kind |-> "other"]     \* a truthy value that is no list and no dict

\* Python truthiness of a response value
Truthy(v) ==
    CASE v.kind = "none"  -> FALSE
      [] v.kind = "list"  -> v.items # <<>>
      [] v.kind = "dict"  -> DOMAIN v.d # {}
      [] OTHER            -> TRUE

\* Variant: a validation that only asks for a truthy response
ValidateTruthy(response) == Truthy(response)

\* DataRouterService._validate_response
_validate_response(response) ==
    IF ~Truthy(response) THEN FALSE
    ELSE IF response.kind = "list" THEN Len(response.items) > 0
    ELSE IF response.kind = "dict" THEN Len(Get(response.d, "data", <<>>)) > 0
    ELSE FALSE

\* DataRouterService._suggest_visualizations
_suggest_visualizations(data, parsed_query) ==
    IF data = <<>> THEN <<>>
    ELSE
    LET sample == data[1]
        has_temperature == HasKey(sample, "temperature")
        has_salinity == HasKey(sample, "salinity")
        has_depth == HasKey(sample, "depth")
        has_time_series == Len(data) > 1
    IN  <<"map">>
        \o (IF HasKey(sample, "latitude") /\ HasKey(sample, "longitude")
            THEN <<"3d_globe">> ELSE <<>>)
        \o (IF has_time_series /\ has_temperature THEN <<"temperature_timeseries">> ELSE <<>>)
        \o (IF has_time_series /\ has_salinity THEN <<"salinity_timeseries">> ELSE <<>>)
        \o (IF has_depth /\ has_temperature THEN <<"temperature_depth_profile">> ELSE <<>>)
        \o (IF Len(data) > 10 THEN <<"heatmap">> ELSE <<>>)

\* item.get(key) is truthy: the key is there, not None and not 0
GetTruthy(item, key) == HasKey(item, key) /\ TruthyNum(item[key])

SetMin(S) == CHOOSE x \in S : \A y \in S : x <= y
SetMax(S) == CHOOSE x \in S : \A y \in S : x >= y

\* DataRouterService._calculate_map_bounds: None, or <<the bounds dict>>
_calculate_map_bounds(data) ==
    LET lats == {data[k]["latitude"][1] : k \in {j \in 1..Len(data) : GetTruthy(data[j], "latitude")}}
        lons == {data[k]["longitude"][1] : k \in {j \in 1..Len(data) : GetTruthy(data[j], "longitude")}}
    IN  IF data = <<>> \/ lats = {} \/ lons = {} THEN None
        ELSE Some([min_lat |-> SetMin(lats), max_lat |-> SetMax(lats),
                   min_lon |-> SetMin(lons), max_lon |-> SetMax(lons)])

\* DataRouterService._format_unified_response (the wall-clock readings
\* timestamp and response_time_ms are left out)
_format_unified_response(data, source, query, parsed_query) ==
    LET formatted_data ==
            IF data.kind = "dict" /\ HasKey(data.d, "data") THEN data.d["data"]
            ELSE IF data.kind = "list" THEN data.items
            ELSE <<data>>
    IN  [success |-> TRUE,
         query |-> [original |-> query, parsed |-> parsed_query],
         data |-> [measurements |-> formatted_data,
                   count |-> Len(formatted_data),
                   source |-> source],
         metadata |-> [data_source |-> source,
                       query_type |-> Get(parsed_query, "type", "unknown")],
         visualization |-> [charts |-> _suggest_visualizations(formatted_data, parsed_query),
                            map_bounds |-> _calculate_map_bounds(formatted_data)]]

\* Variant: the exception text is put in the envelope whatever DEBUG is
FormatErrorLeaking(query, error, debug) ==
    [success |-> FALSE,
     query |-> [original |-> query],
     error |-> [message |-> "Unable to process query at this time",
                details |-> error,
                code |-> "DATA_UNAVAILABLE"],
     suggestions |-> <<"Try a different geographic region",
                       "Specify a different time range",
                       "Check your query format">>]

\* DataRouterService._format_error_response
_format_error_response(query, error, debug) ==
    [success |-> FALSE,
     query |-> [original |-> query],
     error |-> [message |-> "Unable to process query at this time",
                details |-> IF debug THEN error ELSE "Internal server error",
                code |-> "DATA_UNAVAILABLE"],
     suggestions |-> <<"Try a different geographic region",
                       "Specify a different time range",
                       "Check your query format">>]

----------------------------------------------------------------------------
(* State of one call *)

NewCall(q) ==
    [pc           |-> "start",      \* where route_query (or parse_query) is
     query_text   |-> q,            \* the argument
     parsed_query |-> EmptyDict,    \* what the parser returned
     fetch        |-> "none",       \* the fetch_data task: none, simulate, argo,
                                    \*   erddap, noaa, stub, returned, raised, cancelled
     attempts     |-> <<>>,         \* the provider candidates fetch_data has tried
     api_outcome  |-> "none",       \* how the await in _try_api_source ended:
                                    \*   returned, exception, timeout
     api_response |-> PyNone,       \* what _try_api_source returned
     storage      |-> "none",       \* what the storage did in query_data
     envelope     |-> EmptyDict,    \* what route_query returned
     exception    |-> "none",       \* the exception route_query's except clause caught
     raised       |-> FALSE,        \* an exception left the call
     abandoned    |-> PyNone,       \* what a fetch abandoned at the timeout
                                    \*   produced afterwards
     steps        |-> <<>>]         \* the collaborators called, in order

CallIds == {1}

----------------------------------------------------------------------------
(* NLPService.parse_query called on its own *)

ParseQuery(i) ==
    /\ calls[i].pc = "start"
    /\ calls' = [calls EXCEPT ![i] =
                    LET Parsed(c, r) ==
                            IF r.raised
                            THEN [c EXCEPT !.pc = "parsed", !.raised = TRUE]
                            ELSE [c EXCEPT !.pc = "parsed", !.parsed_query = r.value]
                    IN  Parsed(@, parse_query(calls[i].query_text, now))]
    /\ UNCHANGED <<DEBUG, now, store, client>>

InitParser ==
    /\ DEBUG = TRUE
    /\ now \in NowSamples
    /\ store = <<>>
    /\ client = "real"
    /\ \E q \in ParserInputs : calls = [i \in CallIds |-> NewCall(q)]

NextParser == \E i \in DOMAIN calls : ParseQuery(i)

ParserSpec == InitParser /\ [][NextParser]_vars

----------------------------------------------------------------------------
(* DataRouterService.route_query *)

\* Variant: route_query without its except clause; the exception leaves the call
RouteQueryRaise(c, error, debug) ==
    [c EXCEPT !.pc = "done", !.exception = error, !.raised = TRUE]

\* The except clause of route_query (lines 87-89): the error envelope is returned
RouteQueryExcept(c, error, debug) ==
    [c EXCEPT !.pc = "done",
              !.exception = error,
              !.envelope = _format_error_response(c.query_text, error, debug)]

\* The return of _format_unified_response (lines 61-67 and 79-85)
RouteQueryReturn(c, data, source) ==
    [c EXCEPT !.pc = "done",
              !.envelope = _format_unified_response(data, source, c.query_text,
                                                    c.parsed_query)]

\* Lines 44-49: the log line slices query_text, then the parser is called
RouteBegin(i) ==
    /\ calls[i].pc = "start"
    /\ calls' = [calls EXCEPT ![i] =
            IF calls[i].query_text.kind = "none"
            THEN RouteQueryExcept(@, "'NoneType' object is not subscriptable", DEBUG)
            ELSE LET Parsed(c, r) ==
                         IF r.raised
                         THEN RouteQueryExcept(c, r.error, DEBUG)
                         ELSE [c EXCEPT !.pc = "try_api", !.parsed_query = r.value]
                 IN  Parsed([@ EXCEPT !.steps = Append(@, "parse_query")],
                            parse_query(calls[i].query_text, now))]
    /\ UNCHANGED <<DEBUG, now, store, client>>

\* Lines 101-106: fetch_data is started under asyncio.wait_for
StartFetch(i) ==
    /\ calls[i].pc = "try_api"
    /\ calls' = [calls EXCEPT ![i] =
            [@ EXCEPT !.pc = "fetching",
                      !.steps = Append(@, "fetch_data"),
                      !.fetch = IF client = "stub" THEN "stub"
                                ELSE IF DEBUG THEN "simulate" ELSE "argo"]]
    /\ UNCHANGED <<DEBUG, now, store, client>>

\* Variant: the result of the fetch is handed on although the timer expired
TryApiSourceLate(outcome, api_data) == api_data

\* DataRouterService._try_api_source: what it returns for the way its await ended
_try_api_source(outcome, api_data) ==
    IF outcome = "returned" THEN api_data ELSE PyNone

\* Variant: the local store is queried whatever the external source returned
AfterApiThenStore(c, outcome, api_data) ==
    [c EXCEPT !.api_outcome = outcome,
              !.api_response = _try_api_source(outcome, api_data),
              !.fetch = CASE outcome = "returned"  -> "returned"
                          [] outcome = "exception" -> "raised"
                          [] OTHER                 -> "cancelled",
              !.pc = "fallback"]

\* Lines 55-70 of route_query after _try_api_source has returned
AfterApi(c, outcome, api_data) ==
    LET api_response == _try_api_source(outcome, api_data)
        c1 == [c EXCEPT !.api_outcome = outcome,
                        !.api_response = api_response,
                        !.fetch = CASE outcome = "returned"  -> "returned"
                                    [] outcome = "exception" -> "raised"
                                    [] OTHER                 -> "cancelled"]
    IN  IF Truthy(api_response) /\ _validate_response(api_response)
        THEN RouteQueryReturn(c1, api_response, "live_api")
        ELSE [c1 EXCEPT !.pc = "fallback"]

\* fetch_data with settings.DEBUG: _simulate_api_response raises, or returns
FetchSimulate(i) ==
    /\ calls[i].pc = "fetching" /\ calls[i].fetch = "simulate"
    /\ \/ calls' = [calls EXCEPT ![i] = AfterApi(@, "exception", PyNone)]
       \/ \E a, b \in SimulatedDraws :
            /\ a # b
            /\ calls' = [calls EXCEPT ![i] =
                AfterApi(@, "returned",
                         PyList(_simulate_api_response(@.parsed_query, now, a, b)))]
    /\ UNCHANGED <<DEBUG, now, store, client>>

\* fetch_data, candidate "argo": data ends the loop, [] moves on
FetchArgo(i) ==
    /\ calls[i].pc = "fetching" /\ calls[i].fetch = "argo"
    /\ \E net \in ArgoNetwork(now) :
        LET data == _fetch_argo_data(calls[i].parsed_query, net)
            c1 == [calls[i] EXCEPT !.attempts = Append(@, "argo")]
        IN  calls' = [calls EXCEPT ![i] =
                IF data # <<>> THEN AfterApi(c1, "returned", PyList(data))
                ELSE [c1 EXCEPT !.fetch = "erddap"]]
    /\ UNCHANGED <<DEBUG, now, store, client>>

\* fetch_data, candidate "erddap": data ends the loop, [] or an exception moves on
FetchErddap(i) ==
    /\ calls[i].pc = "fetching" /\ calls[i].fetch = "erddap"
    /\ \E r \in ErddapNetwork :
        LET c1 == [calls[i] EXCEPT !.attempts = Append(@, "erddap")]
        IN  calls' = [calls EXCEPT ![i] =
                IF ~r.raised /\ r.value # <<>>
                THEN AfterApi(c1, "returned", PyList(r.value))
                ELSE [c1 EXCEPT !.fetch = "noaa"]]
    /\ UNCHANGED <<DEBUG, now, store, client>>

\* fetch_data, candidate "noaa": _fetch_noaa_data always raises; the loop is
\* over and fetch_data raises "All external APIs unavailable"
FetchNoaa(i) ==
    /\ calls[i].pc = "fetching" /\ calls[i].fetch = "noaa"
    /\ calls' = [calls EXCEPT ![i] =
            AfterApi([@ EXCEPT !.attempts = Append(@, "noaa")], "exception", PyNone)]
    /\ UNCHANGED <<DEBUG, now, store, client>>

\* Responses a test double of the external client answers with
StubRecord ==
    [latitude |-> Some(10), longitude |-> Some(20), temperature |-> Some(1500),
     data_source |-> "live_api"]

StubResponses == {
    PyNone,
    PyList(<<>>),
    PyList(<<StubRecord>>),
    PyDict(EmptyDict),
    PyDict([status |-> "ok"]),
    PyDict([data |-> <<>>]),
    PyDict([data |-> <<StubRecord>>]),
    PyOther }

\* A test double in place of ExternalAPIService.fetch_data raises, or returns
FetchStub(i) ==
    /\ calls[i].pc = "fetching" /\ calls[i].fetch = "stub"
    /\ \/ calls' = [calls EXCEPT ![i] = AfterApi(@, "exception", PyNone)]
       \/ \E r \in StubResponses :
            calls' = [calls EXCEPT ![i] = AfterApi(@, "returned", r)]
    /\ UNCHANGED <<DEBUG, now, store, client>>

\* What the remote call of a cancelled fetch_data still produces: nothing, or
\* measurements nobody awaits any more
AbandonedRecord ==
    [latitude |-> Some(10), longitude |-> Some(20), temperature |-> Some(1500),
     platform_id |-> <<"LATE", 0>>, data_source |-> "live_api"]

AbandonedResults == {PyNone, PyList(<<AbandonedRecord>>)}

\* asyncio.wait_for: the timer expires while fetch_data runs; the task is
\* cancelled and asyncio.TimeoutError is raised in _try_api_source
Timeout(i) ==
    /\ calls[i].pc = "fetching"
    /\ \E late \in AbandonedResults :
         calls' = [calls EXCEPT ![i] =
                     AfterApi([@ EXCEPT !.abandoned = late], "timeout", late)]
    /\ UNCHANGED <<DEBUG, now, store, client>>

\* Variant: no fallback; the failure of the external source is answered with
\* the error envelope
RouteFallbackSurfaced(c, table, nw, storage, a, b, debug) ==
    RouteQueryExcept(c, "external source unavailable", debug)

\* Lines 72-85: query_data is awaited and its result returned
RouteFallback(c, table, nw, storage, a, b, debug) ==
    LET Answer(c1, r) ==
            IF r.raised
            THEN RouteQueryExcept(c1, r.error, debug)
            ELSE RouteQueryReturn(c1, PyList(r.value), "local_database")
    IN  Answer([c EXCEPT !.storage = storage, !.steps = Append(@, "query_data")],
               query_data(table, c.parsed_query, nw, storage, a, b))

\* Variant: the structured query is kept on the shared service, so the
\* fallback of one call works on what any call has parsed
FallbackShared(i) ==
    /\ calls[i].pc = "fallback"
    /\ \E j \in DOMAIN calls, storage \in StorageOutcomes, a, b \in RandomDraws :
         /\ a # b
         /\ calls[j].pc # "start"
         /\ calls' = [calls EXCEPT ![i] =
                        RouteFallback([@ EXCEPT !.parsed_query = calls[j].parsed_query],
                                      store, now, storage, a, b, DEBUG)]
    /\ UNCHANGED <<DEBUG, now, store, client>>

Fallback(i) ==
    /\ calls[i].pc = "fallback"
    /\ \E storage \in StorageOutcomes, a, b \in RandomDraws :
         /\ a # b
         /\ calls' = [calls EXCEPT ![i] =
                        RouteFallback(@, store, now, storage, a, b, DEBUG)]
    /\ UNCHANGED <<DEBUG, now, store, client>>

Init ==
    /\ DEBUG \in BOOLEAN
    /\ now = RouterNow
    /\ store \in StoreSamples
    /\ client \in {"real", "stub"}
    /\ \E q \in RouterInputs : calls = [i \in CallIds |-> NewCall(q)]

Next ==
    \E i \in DOMAIN calls :
        \/ RouteBegin(i)
        \/ StartFetch(i)
        \/ FetchSimulate(i)
        \/ FetchArgo(i)
        \/ FetchErddap(i)
        \/ FetchNoaa(i)
        \/ FetchStub(i)
        \/ Timeout(i)
        \/ Fallback(i)

Spec == Init /\ [][Next]_vars


----------------------------------------------------------------------------
(* Properties of route_query *)

\* A validated result: a non-empty list, or a dict whose data is non-empty
ValidResult(r) ==
    \/ r.kind = "list" /\ r.items # <<>>
    \/ r.kind = "dict" /\ HasKey(r.d, "data") /\ r.d["data"] # <<>>

\* The external source timed out, raised, or returned an empty/invalid result
ExternalFailed(c) ==
    \/ c.api_outcome \in {"timeout", "exception"}
    \/ c.api_outcome = "returned" /\ ~ValidResult(c.api_response)

\* C1: when the external source times out, raises or returns an empty or
\* invalid result, route_query returns a success envelope whose data.source
\* and metadata.data_source are "local_database"
C1_FallbackOnExternalFailure ==
    \A i \in DOMAIN calls :
        (calls[i].pc = "done" /\ ExternalFailed(calls[i]))
            => /\ ~calls[i].raised
               /\ calls[i].envelope.success
               /\ calls[i].envelope.data.source = "local_database"
               /\ calls[i].envelope.metadata.data_source = "local_database"

\* each way the external source fails is answered from the local store
C1_Witness ==
    \E i \in DOMAIN calls :
        /\ calls[i].pc = "done"
        /\ calls[i].api_outcome = "timeout"
        /\ calls[i].envelope.success
        /\ calls[i].envelope.data.source = "local_database"

\* C2: a success envelope has source "live_api" exactly when the fetch returned
\* (within the timeout) a validated result, and a validated result is always
\* answered so; every other success envelope has source "local_database"
C2_LiveApiIffValidated ==
    \A i \in DOMAIN calls :
        LET c == calls[i]
            validated == c.api_outcome = "returned" /\ ValidResult(c.api_response)
        IN  c.pc = "done" =>
                /\ validated => (c.envelope.success /\ c.envelope.data.source = "live_api")
                /\ (c.envelope.success /\ ~validated)
                        => c.envelope.data.source = "local_database"

\* a dict with non-empty data is answered as live_api
C2_Witness ==
    \E i \in DOMAIN calls :
        /\ calls[i].pc = "done"
        /\ calls[i].api_response.kind = "dict"
        /\ calls[i].envelope.success
        /\ calls[i].envelope.data.source = "live_api"


\* The local store answered the call with generated data: the storage raised,
\* or the query matched no row
StoreGaveNothing(c) ==
    \/ c.storage \in StorageOutcomes \ {"ok"}
    \/ c.storage = "ok" /\ RunDatabaseQuery(store, c.parsed_query) = <<>>

\* a measurement whose position is on the globe
OnTheGlobe(m) ==
    /\ m.latitude # None /\ m.latitude[1] >= -90 /\ m.latitude[1] <= 90
    /\ m.longitude # None /\ m.longitude[1] >= -180 /\ m.longitude[1] <= 180

\* C3: when the external source is unusable and the local store has no row for
\* the query (or raises), the envelope holds exactly 50 measurements, each
\* tagged data_source = "local_database" and each with latitude in [-90, 90]
\* and longitude in [-180, 180]
C3_FiftyGeneratedRecordsOnTheGlobe ==
    \A i \in DOMAIN calls :
        LET c == calls[i]
        IN  (c.pc = "done" /\ ExternalFailed(c) /\ StoreGaveNothing(c))
                => /\ c.envelope.success
                   /\ Len(c.envelope.data.measurements) = SampleCount
                   /\ \A k \in 1..Len(c.envelope.data.measurements) :
                        /\ c.envelope.data.measurements[k].data_source = "local_database"
                        /\ OnTheGlobe(c.envelope.data.measurements[k])

\* the text "89n 179e" is answered with a generated record north of the pole
C3_Witness ==
    \E i \in DOMAIN calls :
        /\ calls[i].pc = "done"
        /\ calls[i].query_text = Str(<<"8","9","n"," ","1","7","9","e">>)
        /\ ExternalFailed(calls[i]) /\ StoreGaveNothing(calls[i])
        /\ \E k \in 1..Len(calls[i].envelope.data.measurements) :
                calls[i].envelope.data.measurements[k].latitude[1] > 90

\* the call has returned an envelope
HasEnvelope(c) ==
    /\ c.pc = "done" /\ ~c.raised
    /\ HasKey(c.envelope, "success")
    /\ c.envelope.success => HasKey(c.envelope, "data")
    /\ ~c.envelope.success => HasKey(c.envelope, "error")

\* The number of steps route_query can still take, at most
StepsLeft(c) ==
    CASE c.pc = "start"    -> 7
      [] c.pc = "try_api"  -> 6
      [] c.pc = "fetching" -> (CASE c.fetch = "argo"   -> 5
                                 [] c.fetch = "erddap" -> 4
                                 [] OTHER              -> 3)
      [] c.pc = "fallback" -> 1
      [] OTHER             -> 0

\* C4: every call of route_query terminates and returns a success or an error
\* envelope; no exception of the parser, the external client or the local
\* store leaves route_query.  Termination: before its return a call is at a
\* position where a step is enabled whatever the data (RouteBegin at "start",
\* StartFetch at "try_api", Timeout at "fetching", Fallback at "fallback"),
\* and every step leaves the call fewer steps to take.
C4_AlwaysReturnsEnvelope ==
    /\ [](\A i \in DOMAIN calls :
            /\ ~calls[i].raised
            /\ calls[i].pc \in {"start", "try_api", "fetching", "fallback", "done"}
            /\ calls[i].pc = "done" => HasEnvelope(calls[i]))
    /\ [][\A i \in DOMAIN calls :
            calls'[i] # calls[i] => StepsLeft(calls'[i]) < StepsLeft(calls[i])]_vars

\* the external client raised, the storage raised, and the call returned
C4_Witness ==
    \E i \in DOMAIN calls :
        /\ calls[i].api_outcome = "exception"
        /\ calls[i].storage = "connect_error"
        /\ HasEnvelope(calls[i])

\* C5: an exception caught by route_query is answered with success = false,
\* the message "Unable to process query at this time" and the three fixed
\* suggestions; details is the exception text when DEBUG is set and
\* "Internal server error" otherwise
C5_ErrorEnvelope ==
    \A i \in DOMAIN calls :
        (calls[i].pc = "done" /\ calls[i].exception # "none")
            => /\ ~calls[i].raised
               /\ calls[i].envelope.success = FALSE
               /\ calls[i].envelope.error.message = "Unable to process query at this time"
               /\ calls[i].envelope.suggestions = <<"Try a different geographic region",
                                                    "Specify a different time range",
                                                    "Check your query format">>
               /\ calls[i].envelope.error.details =
                    IF DEBUG THEN calls[i].exception ELSE "Internal server error"

\* an exception is answered without its text when DEBUG is off
C5_Witness ==
    \E i \in DOMAIN calls :
        /\ calls[i].pc = "done" /\ calls[i].exception # "none"
        /\ ~DEBUG
        /\ calls[i].envelope.error.details = "Internal server error"

\* C6: query_data never fails observably: whatever the storage does (rows, no
\* row, an error on connecting or on building the filter) it raises nothing
\* and returns a non-empty sequence of measurements
C6_QueryDataNeverFails ==
    \A i \in DOMAIN calls :
        calls[i].storage # "none"
            => /\ calls[i].exception = "none"
               /\ calls[i].envelope.success
               /\ calls[i].envelope.data.measurements # <<>>

\* the storage raised while the filter was built, and measurements came back
C6_Witness ==
    \E i \in DOMAIN calls :
        /\ calls[i].storage = "filter_error"
        /\ calls[i].envelope.data.measurements # <<>>


----------------------------------------------------------------------------
(* Properties of parse_query *)

\* parse_query has returned for a text
ParsedText(c) == c.pc = "parsed" /\ ~c.raised /\ c.query_text.kind = "str"

\* C7: for every input text the structured query parse_query returns holds
\* parameters, the four spatial bounds min_lat, max_lat, min_lon, max_lon and
\* the two temporal bounds start_time, end_time
C7_DefaultFilling ==
    \A i \in DOMAIN calls :
        calls[i].pc = "parsed"
            => /\ ~calls[i].raised
               /\ \A key \in {"parameters", "min_lat", "max_lat", "min_lon", "max_lon",
                              "start_time", "end_time"} :
                        HasKey(calls[i].parsed_query, key)

\* the text "north" is parsed into a query without spatial bounds
C7_Witness ==
    \E i \in DOMAIN calls :
        /\ ParsedText(calls[i])
        /\ calls[i].query_text.chars = <<"n","o","r","t","h">>
        /\ ~HasKey(calls[i].parsed_query, "min_lat")
        /\ ~HasKey(calls[i].parsed_query, "max_lon")

\* Every keyword of the parser's vocabulary
AllKeywords ==
    UNION {oceanographic_terms[k].terms : k \in 1..Len(oceanographic_terms)}
        \cup {regions[k].key : k \in 1..Len(regions)}
        \cup {KwNorth, KwSouth, KwEast, KwWest, KwRecent, KwLatest, KwLastYear,
              KwSurface, KwDeep, KwTrend, KwChange, KwCompare, KwDifference,
              KwPattern, KwDistribution}

\* No vocabulary item matches the input: it is no text, or a text with no
\* keyword in it and no digit (so no year and no coordinate)
NoVocabularyMatch(q) ==
    \/ q.kind # "str"
    \/ /\ \A kw \in AllKeywords : ~Contains(Lower(q.chars), kw)
       /\ \A k \in 1..Len(q.chars) : ~IsDigit(q.chars[k])

\* The all-defaults structured query, at the date nw
AllDefaults(nw) ==
    [type |-> "general", parameters |-> <<"temperature">>,
     center_lat |-> 0, center_lon |-> 0,
     min_lat |-> -90, max_lat |-> 90, min_lon |-> -180, max_lon |-> 180,
     start_time |-> FormatDate(FromOrdinal(ToOrdinal(nw) - 365)),
     end_time |-> FormatDate(nw)]

\* C8: parse_query never raises, and an input in which no vocabulary item
\* matches is parsed into the all-defaults structured query: general,
\* <<temperature>>, centre (0, 0), the global box, the trailing 365 days and
\* no depth bounds
C8_AlwaysSucceedsWithDefaults ==
    \A i \in DOMAIN calls :
        calls[i].pc = "parsed"
            => /\ ~calls[i].raised
               /\ NoVocabularyMatch(calls[i].query_text)
                    => calls[i].parsed_query = AllDefaults(now)

\* an input that is no text goes through the except clause to the defaults
C8_Witness ==
    \E i \in DOMAIN calls :
        /\ calls[i].pc = "parsed" /\ ~calls[i].raised
        /\ calls[i].query_text = ListInput
        /\ calls[i].parsed_query = AllDefaults(now)

\* The first four-digit number in the text: <<>> or <<year>>
FourDigitYear(t) ==
    LET hits == {k \in 1..(Len(t) - 3) : \A j \in 0..3 : IsDigit(t[k + j])}
    IN  IF hits = {} THEN <<>>
        ELSE <<NumberOf(SubSeq(t, SetMin(hits), SetMin(hits) + 3))>>

\* The temporal range the strict priority gives: year, recent/latest,
\* last year, trailing 365 days
PriorityRange(t, nw) ==
    IF FourDigitYear(t) # <<>> THEN YearRange(FourDigitYear(t)[1])
    ELSE IF Contains(t, KwRecent) \/ Contains(t, KwLatest)
    THEN [start_time |-> FormatDate(FromOrdinal(ToOrdinal(nw) - 30)),
          end_time |-> FormatDate(nw)]
    ELSE IF Contains(t, KwLastYear) THEN YearRange(nw[1] - 1)
    ELSE [start_time |-> FormatDate(FromOrdinal(ToOrdinal(nw) - 365)),
          end_time |-> FormatDate(nw)]

\* C9: the temporal range follows the strict priority: an explicit four-digit
\* year Y gives Y-01-01 .. Y-12-31 (also next to "recent", "latest" or
\* "last year"), else "recent"/"latest" gives the trailing 30 days, else
\* "last year" gives the previous calendar year, else the trailing 365 days
C9_TemporalPriority ==
    \A i \in DOMAIN calls :
        ParsedText(calls[i])
            => LET range == PriorityRange(Lower(calls[i].query_text.chars), now)
               IN  /\ Get(calls[i].parsed_query, "start_time", <<>>) = range.start_time
                   /\ Get(calls[i].parsed_query, "end_time", <<>>) = range.end_time

\* the text "recent 2022" is parsed into the trailing 30 days
C9_Witness ==
    \E i \in DOMAIN calls :
        /\ ParsedText(calls[i])
        /\ calls[i].query_text.chars = <<"r","e","c","e","n","t"," ","2","0","2","2">>
        /\ calls[i].parsed_query["start_time"] = FormatDate(FromOrdinal(ToOrdinal(now) - 30))
        /\ calls[i].parsed_query["end_time"] = FormatDate(now)

\* The words of a text: its maximal runs without a space
RECURSIVE Words(_)
Words(t) ==
    IF t = <<>> THEN {}
    ELSE LET spaces == {k \in 1..Len(t) : t[k] = " "}
         IN  IF spaces = {} THEN {t}
             ELSE ({SubSeq(t, 1, SetMin(spaces) - 1)} \ {<<>>})
                    \cup Words(SubSeq(t, SetMin(spaces) + 1, Len(t)))

\* The basins the text names, as indices of the gazetteer
NamedBasins(t) == {k \in 1..Len(regions) : Contains(t, regions[k].key)}

\* The text names a basin and holds no coordinate pattern and no directional word
BasinOnly(t) ==
    /\ NamedBasins(t) # {}
    /\ CoordSearch(t, {"n", "s"}) = <<>>
    /\ CoordSearch(t, {"e", "w"}) = <<>>
    /\ Words(t) \cap {KwNorth, KwSouth, KwEast, KwWest} = {}

\* C10: a text that names a basin and holds no coordinate pattern and no
\* directional keyword is parsed into that basin's region tag, predefined
\* centre and predefined box; of several basins the first in the order
\* pacific, atlantic, indian, arctic, southern is taken
C10_NamedBasin ==
    \A i \in DOMAIN calls :
        (ParsedText(calls[i]) /\ BasinOnly(Lower(calls[i].query_text.chars)))
            => LET basin == regions[SetMin(NamedBasins(Lower(calls[i].query_text.chars)))]
                   q == calls[i].parsed_query
               IN  /\ Get(q, "region", "none") = basin.name
                   /\ q["center_lat"] = basin.center_lat
                   /\ q["center_lon"] = basin.center_lon
                   /\ <<Get(q, "min_lat", "none"), Get(q, "max_lat", "none"),
                        Get(q, "min_lon", "none"), Get(q, "max_lon", "none")>> = basin.bounds

\* the text "Pacific" is parsed into a query with the basin's centre and box
\* but without a region tag
C10_Witness ==
    \E i \in DOMAIN calls :
        /\ ParsedText(calls[i])
        /\ calls[i].query_text.chars = <<"P","a","c","i","f","i","c">>
        /\ ~HasKey(calls[i].parsed_query, "region")
        /\ calls[i].parsed_query["center_lon"] = -150

\* The depth keys of a structured query: <<>> when neither is there
DepthBounds(q) ==
    IF HasKey(q, "min_depth") \/ HasKey(q, "max_depth")
    THEN <<Get(q, "min_depth", "none"), Get(q, "max_depth", "none")>>
    ELSE <<>>

\* C11: a text with "surface" in it is parsed into min_depth = 0 and
\* max_depth = 50; otherwise a text with "deep" in it into min_depth = 1000 and
\* max_depth = 5000; otherwise neither min_depth nor max_depth is in the query
C11_DepthExtraction ==
    \A i \in DOMAIN calls :
        ParsedText(calls[i])
            => DepthBounds(calls[i].parsed_query) =
                 IF Contains(Lower(calls[i].query_text.chars), <<"s","u","r","f","a","c","e">>)
                 THEN <<0, 50>>
                 ELSE IF Contains(Lower(calls[i].query_text.chars), <<"d","e","e","p">>)
                 THEN <<1000, 5000>>
                 ELSE <<>>

\* the text "deep surface" is parsed into the surface layer
C11_Witness ==
    \E i \in DOMAIN calls :
        /\ ParsedText(calls[i])
        /\ calls[i].query_text.chars = <<"d","e","e","p"," ","s","u","r","f","a","c","e">>
        /\ DepthBounds(calls[i].parsed_query) = <<0, 50>>

\* The text itself yields spatial information: a basin name, a latitude and a
\* longitude pattern, or a directional term
YieldsSpatial(t) ==
    \/ NamedBasins(t) # {}
    \/ CoordSearch(t, {"n", "s"}) # <<>> /\ CoordSearch(t, {"e", "w"}) # <<>>
    \/ \E kw \in {<<"n","o","r","t","h">>, <<"s","o","u","t","h">>,
                  <<"e","a","s","t">>, <<"w","e","s","t">>} : Contains(t, kw)

\* The text itself yields temporal information: a year 20xx, "recent",
\* "latest" or "last year"
YieldsTemporal(t) ==
    \/ YearSearch(t) # <<>>
    \/ \E kw \in {<<"r","e","c","e","n","t">>, <<"l","a","t","e","s","t">>,
                  <<"l","a","s","t"," ","y","e","a","r">>} : Contains(t, kw)

\* The category the fixed priority gives a lower-cased text
PriorityCategory(t) ==
    IF Contains(t, <<"t","r","e","n","d">>) \/ Contains(t, <<"c","h","a","n","g","e">>)
    THEN "trend_analysis"
    ELSE IF Contains(t, <<"c","o","m","p","a","r","e">>)
            \/ Contains(t, <<"d","i","f","f","e","r","e","n","c","e">>)
    THEN "comparison"
    ELSE IF Contains(t, <<"p","a","t","t","e","r","n">>)
            \/ Contains(t, <<"d","i","s","t","r","i","b","u","t","i","o","n">>)
    THEN "pattern_analysis"
    ELSE IF YieldsSpatial(t) THEN "spatial_query"
    ELSE IF YieldsTemporal(t) THEN "temporal_query"
    ELSE "general"

\* C12: the category follows the fixed priority trend/change, compare/
\* difference, pattern/distribution, spatial information of the text, temporal
\* information of the text, general; the defaults filled in afterwards for
\* missing spatial or temporal information do not change it
C12_CategoryPriority ==
    \A i \in DOMAIN calls :
        ParsedText(calls[i])
            => calls[i].parsed_query["type"]
                    = PriorityCategory(Lower(calls[i].query_text.chars))

\* the text "2022" is a temporal_query although the global box was filled in
C12_Witness ==
    \E i \in DOMAIN calls :
        /\ ParsedText(calls[i])
        /\ calls[i].query_text.chars = <<"2","0","2","2">>
        /\ calls[i].parsed_query["type"] = "temporal_query"
        /\ Get(calls[i].parsed_query, "min_lat", 0) = -90

\* The parameters one of whose synonyms occurs in the lower-cased text
MentionedParameters(t) ==
    {oceanographic_terms[k].param :
        k \in {j \in 1..Len(oceanographic_terms) :
                \E term \in oceanographic_terms[j].terms : Contains(t, term)}}

\* C13: the parameters of the result are exactly those with a synonym in the
\* lower-cased text, each once; the list is never empty, and it is exactly
\* <<temperature>> when no synonym of any parameter occurs
C13_ParameterExtraction ==
    \A i \in DOMAIN calls :
        ParsedText(calls[i])
            => LET ps == calls[i].parsed_query["parameters"]
                   mentioned == MentionedParameters(Lower(calls[i].query_text.chars))
               IN  /\ ps # <<>>
                   /\ \A j, k \in 1..Len(ps) : ps[j] = ps[k] => j = k
                   /\ {ps[k] : k \in 1..Len(ps)} =
                        IF mentioned = {} THEN {"temperature"} ELSE mentioned

\* the text "salinity deep" is parsed into salinity and depth, without temperature
C13_Witness ==
    \E i \in DOMAIN calls :
        /\ ParsedText(calls[i])
        /\ calls[i].query_text.chars = <<"s","a","l","i","n","i","t","y"," ","d","e","e","p">>
        /\ calls[i].parsed_query["parameters"] = <<"salinity", "depth">>

----------------------------------------------------------------------------
(* Properties of ExternalAPIService.fetch_data *)

\* The provider candidates, in their order of preference
ProviderOrder == <<"argo", "erddap", "noaa">>

\* The candidates were attempted one after the other in the order of
\* preference; fetch_data reported failure only after all three, and returned
\* data only from a candidate it attempted
TriedInOrder(c) ==
    /\ Len(c.attempts) <= Len(ProviderOrder)
    /\ c.attempts = SubSeq(ProviderOrder, 1, Len(c.attempts))
    /\ c.fetch = "raised" => c.attempts = ProviderOrder
    /\ c.fetch = "returned" => c.attempts # <<>>

\* C14: fetch_data tries the candidates argo, erddap, noaa one after the other
\* in this order; an exception or an empty result of one candidate moves on to
\* the next, the first candidate with data ends the sequence, and failure
\* reaches the caller only after all three have been attempted
C14_ProvidersInOrder ==
    \A i \in DOMAIN calls : client = "real" => TriedInOrder(calls[i])

\* with DEBUG set fetch_data raises without having attempted any candidate
C14_Witness ==
    \E i \in DOMAIN calls :
        /\ client = "real" /\ DEBUG
        /\ calls[i].fetch = "raised"
        /\ calls[i].attempts = <<>>

\* A measurement an external parser has to reject: a coordinate is missing,
\* or temperature and salinity are both null
ToReject(m) ==
    \/ ~HasKey(m, "latitude") \/ m["latitude"] = None
    \/ ~HasKey(m, "longitude") \/ m["longitude"] = None
    \/ /\ (~HasKey(m, "temperature") \/ m["temperature"] = None)
       /\ (~HasKey(m, "salinity") \/ m["salinity"] = None)

\* C15: a row without latitude or longitude, or with temperature and salinity
\* both null, is rejected by the Argo parser and by the ERDDAP parser: no such
\* record is among the measurements fetch_data returns
C15_RowsRejected ==
    \A i \in DOMAIN calls :
        (client = "real" /\ calls[i].api_outcome = "returned")
            => \A k \in 1..Len(calls[i].api_response.items) :
                    ~ToReject(calls[i].api_response.items[k])

\* fetch_data returns, from the ERDDAP candidate, a record without latitude
C15_Witness ==
    \E i \in DOMAIN calls :
        /\ client = "real" /\ calls[i].api_outcome = "returned"
        /\ calls[i].attempts = <<"argo", "erddap">>
        /\ \E k \in 1..Len(calls[i].api_response.items) :
                calls[i].api_response.items[k]["latitude"] = None

----------------------------------------------------------------------------
(* POST /query: process_query of the API router, which awaits route_query  *)

\* Request bodies: without "query", with a null or empty one, with a text
ApiRequests == {
    [user_id |-> "u1"],
    [query |-> NoneInput],
    [query |-> Str(<<>>)],
    [query |-> Str(<<>>), user_id |-> "u1"],
    [query |-> Str(<<"d","e","e","p">>)],
    [query |-> Str(<<"P","a","c","i","f","i","c">>), user_id |-> "u1"],
    [query |-> Str(<<"8","9","n"," ","1","7","9","e">>)] }

\* request.get("query")
RequestQuery(request) == Get(request, "query", NoneInput)

\* `not query_text`
NotText(v) == v.kind = "none" \/ (v.kind = "str" /\ v.chars = <<>>)

\* str(e) of the HTTPException raised at line 54: the framework's __str__
\* gives "400: Query text is required", an older one the empty text
HttpExceptionTexts == {"", "400: Query text is required"}

\* The settings the requests are served under: DEBUG and the client
ApiSettings == {<<TRUE, "real">>, <<FALSE, "real">>, <<FALSE, "stub">>}

\* A request that process_query has not looked at yet
ApiCall(request) ==
    Update(NewCall(RequestQuery(request)),
           [pc |-> "request",
            request |-> request,       \* the body
            routed |-> FALSE,          \* route_query has been called
            http |-> EmptyDict])       \* the HTTP response

\* Lines 49-56: the query is read; an absent or empty one raises
\* HTTPException(400) inside the try block, which `except Exception` (63-65)
\* answers with HTTPException(500, str(e)); otherwise route_query is awaited
ProcessQuery(i) ==
    /\ calls[i].pc = "request"
    /\ IF NotText(RequestQuery(calls[i].request))
       THEN \E text \in HttpExceptionTexts :
              calls' = [calls EXCEPT ![i] =
                          [@ EXCEPT !.pc = "responded",
                                    !.http = [status_code |-> 500, detail |-> text]]]
       ELSE calls' = [calls EXCEPT ![i] = [@ EXCEPT !.pc = "start", !.routed = TRUE]]
    /\ UNCHANGED <<DEBUG, now, store, client>>

\* Lines 59-61: route_query has returned and its envelope is the response
Respond(i) ==
    /\ calls[i].pc = "done" /\ HasKey(calls[i], "http")
    /\ calls' = [calls EXCEPT ![i] =
                   [@ EXCEPT !.pc = "responded",
                             !.http = IF calls[i].raised
                                      THEN [status_code |-> 500, detail |-> calls[i].exception]
                                      ELSE [status_code |-> 200, body |-> calls[i].envelope]]]
    /\ UNCHANGED <<DEBUG, now, store, client>>

InitApi ==
    /\ \E s \in ApiSettings : DEBUG = s[1] /\ client = s[2]
    /\ now = RouterNow
    /\ store \in StoreSamples
    /\ \E request \in ApiRequests : calls = [i \in CallIds |-> ApiCall(request)]

NextApi ==
    \/ \E i \in DOMAIN calls : ProcessQuery(i)
    \/ \E i \in DOMAIN calls : Respond(i)
    \/ Next

ApiSpec == InitApi /\ [][NextApi]_vars

----------------------------------------------------------------------------
(* Two requests served at once by the one DataRouterService of the API      *)
(* router: their route_query calls interleave at every await                *)

ConcurrentCallIds == {1, 2}

\* The query texts of the two requests
ConcurrentTexts == <<Str(<<"d","e","e","p">>), Str(<<>>)>>


InitConcurrent ==
    /\ \E s \in ApiSettings : DEBUG = s[1] /\ client = s[2]
    /\ now = RouterNow
    /\ store = StoreRows
    /\ calls = [i \in ConcurrentCallIds |-> NewCall(ConcurrentTexts[i])]

ConcurrentSpec == InitConcurrent /\ [][Next]_vars

----------------------------------------------------------------------------
(* route_query called twice in a row with the same text, the external      *)
(* client replaced by one that is switched off                             *)

\* A disabled client in place of ExternalAPIService.fetch_data: it raises
FetchDisabled(i) ==
    /\ calls[i].pc = "fetching" /\ calls[i].fetch = "stub"
    /\ calls' = [calls EXCEPT ![i] = AfterApi(@, "exception", PyNone)]
    /\ UNCHANGED <<DEBUG, now, store, client>>

\* The second call is made when the first has returned
InTurn(i) == i = 1 \/ calls[1].pc = "done"

InitRepeat ==
    /\ DEBUG = FALSE
    /\ now = RouterNow
    /\ store \in StoreSamples
    /\ client = "stub"
    /\ \E q \in RouterInputs : calls = [i \in ConcurrentCallIds |-> NewCall(q)]

NextRepeat ==
    \E i \in DOMAIN calls :
        /\ InTurn(i)
        /\ \/ RouteBegin(i)
           \/ StartFetch(i)
           \/ FetchDisabled(i)
           \/ Fallback(i)

RepeatSpec == InitRepeat /\ [][NextRepeat]_vars

----------------------------------------------------------------------------
(* ExternalAPIService.get_live_data_status.  In the runs of StatusSpec now  *)
(* is <<year, month, day, hour>>.                                          *)

\* Longest directory listing of the model
MaxFiles == 2

\* A name in the directory listing: "R20240315_prof_0.nc" is
\* ArgoFile("R", <<2024, 3, 15>>, 0)
ArgoFile(prefix, date, n) == [prefix |-> prefix, date |-> date, n |-> n]

\* Names the listing is made of: profile files of five days, one whose eight
\* digits are no date, and one the pattern does not match
ListingNames == {
    ArgoFile("R", <<2024, 3, 15>>, 0),
    ArgoFile("R", <<2024, 3, 14>>, 0),
    ArgoFile("R", <<2024, 3, 13>>, 0),
    ArgoFile("R", <<2024, 3, 12>>, 0),
    ArgoFile("R", <<2024, 3, 11>>, 0),
    ArgoFile("R", <<2024, 13, 40>>, 0),
    ArgoFile("D", <<2024, 3, 15>>, 0) }

Listings == UNION {[1..n -> ListingNames] : n \in 0..MaxFiles}

\* What client.get(latest_data_url) does: it answers, or raises
ManifestResponses ==
    {[kind |-> "response", status_code |-> 200, files |-> l] : l \in Listings}
    \cup {[kind |-> "response", status_code |-> 404, files |-> <<>>],
          [kind |-> "connect_error"], [kind |-> "timeout"], [kind |-> "error"]}

\* Times datetime.now() is sampled at
StatusNowSamples == {<<2024, 3, 15, 0>>, <<2024, 3, 15, 12>>, <<2024, 3, 16, 1>>}

\* re.findall(r'(R\d{8}_prof_\d+\.nc)', content) finds the name
MatchesFilePattern(file) == file.prefix = "R"

\* datetime.strptime(date_str, '%Y%m%d') does not raise ValueError
ParsesAsDate(file) ==
    /\ file.date[1] >= 1
    /\ file.date[2] \in 1..12
    /\ file.date[3] \in 1..DaysInMonth(file.date[1], file.date[2])

\* files_with_dates.sort(key=lambda x: x[0], reverse=True): newest first,
\* files of one day in the order of the listing
RECURSIVE SortFilesDesc(_)
SortFilesDesc(files) ==
    IF files = <<>> THEN <<>>
    ELSE LET k == CHOOSE k \in 1..Len(files) :
                    \A j \in 1..Len(files) :
                        \/ ToOrdinal(files[k].date) > ToOrdinal(files[j].date)
                        \/ (ToOrdinal(files[k].date) = ToOrdinal(files[j].date) /\ k <= j)
         IN  <<files[k]>> \o SortFilesDesc(SubSeq(files, 1, k - 1)
                                            \o SubSeq(files, k + 1, Len(files)))

\* Variant: the fallback names carry a fixed date instead of today's
FallbackFilesFixedDate(nw) ==
    [i \in 1..3 |-> ArgoFile("R", <<2024, 3, 11>>, i - 1)]

\* ExternalAPIService._get_fallback_argo_files
_get_fallback_argo_files(nw) ==
    [i \in 1..3 |-> ArgoFile("R", <<nw[1], nw[2], nw[3]>>, i - 1)]

\* ExternalAPIService._get_latest_argo_files
_get_latest_argo_files(response, nw) ==
    IF response.kind # "response" THEN _get_fallback_argo_files(nw)
    ELSE IF response.status_code # 200 THEN _get_fallback_argo_files(nw)
    ELSE IF SelectSeq(response.files, MatchesFilePattern) = <<>>
         THEN _get_fallback_argo_files(nw)
    ELSE LET Top(sorted) == SubSeq(sorted, 1, IF Len(sorted) < 5 THEN Len(sorted) ELSE 5)
         IN  Top(SortFilesDesc(SelectSeq(SelectSeq(response.files, MatchesFilePattern),
                                         ParsesAsDate)))

\* (datetime.now() - latest_date).total_seconds() / 3600
HoursOld(file, nw) ==
    (ToOrdinal(<<nw[1], nw[2], nw[3]>>) - ToOrdinal(file.date)) * 24 + nw[4]

\* Lines 453-457: the status message for the age of the latest file
StatusMessage(hours_old) ==
    IF hours_old > 48 THEN "Data delay detected"
    ELSE IF hours_old > 72 THEN "Significant delay"
    ELSE "Live data active"

\* Lines 444-490 of get_live_data_status: the dict returned for latest_files
LiveDataStatus(latest_files, nw) ==
    IF latest_files # <<>>
    THEN IF ParsesAsDate(latest_files[1])
         THEN [live_data_available |-> TRUE,
               latest_file |-> latest_files[1],
               hours_old |-> HoursOld(latest_files[1], nw),
               total_files |-> Len(latest_files),
               status |-> StatusMessage(HoursOld(latest_files[1], nw))]
         ELSE [live_data_available |-> TRUE,
               latest_file |-> latest_files[1],
               total_files |-> Len(latest_files),
               status |-> "Files found but date parsing failed"]
    ELSE [live_data_available |-> FALSE,
          status |-> "Live data unavailable",
          fallback_active |-> TRUE]

\* ExternalAPIService.get_live_data_status
get_live_data_status(response, nw) ==
    LiveDataStatus(_get_latest_argo_files(response, nw), nw)

\* A call of get_live_data_status
NewStatusCall ==
    [pc       |-> "start",
     manifest |-> [kind |-> "none"],   \* what the request for the listing gave
     result   |-> EmptyDict]           \* the dict returned

GetLiveDataStatus(i) ==
    /\ calls[i].pc = "start"
    /\ \E response \in ManifestResponses :
         calls' = [calls EXCEPT ![i] =
                     [pc |-> "done", manifest |-> response,
                      result |-> get_live_data_status(response, now)]]
    /\ UNCHANGED <<DEBUG, now, store, client>>

InitStatus ==
    /\ DEBUG = FALSE
    /\ now \in StatusNowSamples
    /\ store = <<>>
    /\ client = "real"
    /\ calls = [i \in CallIds |-> NewStatusCall]

NextStatus == \E i \in DOMAIN calls : GetLiveDataStatus(i)

StatusSpec == InitStatus /\ [][NextStatus]_vars

\* ---------------------------------------------------------------------
\* Properties of the success envelope
\* ---------------------------------------------------------------------

\* The envelope of call c reports success
SuccessEnvelope(c) == c.pc = "done" /\ c.envelope # <<>> /\ c.envelope.success

\* Measurement m passes a spatial box filter with the bounds b
InBox(m, b) ==
    /\ HasKey(m, "latitude") /\ m["latitude"] # None
    /\ HasKey(m, "longitude") /\ m["longitude"] # None
    /\ b.min_lat <= m["latitude"][1] /\ m["latitude"][1] <= b.max_lat
    /\ b.min_lon <= m["longitude"][1] /\ m["longitude"][1] <= b.max_lon

\* C16: when a success envelope has map_bounds, every measurement of the
\* envelope lies inside them (records at latitude or longitude 0 included),
\* so that filtering by the computed box gives back the whole set
C16_MapBoundsRoundTrip ==
    \A i \in DOMAIN calls :
        (SuccessEnvelope(calls[i]) /\ calls[i].envelope.visualization.map_bounds # None)
            => \A k \in 1..Len(calls[i].envelope.data.measurements) :
                    InBox(calls[i].envelope.data.measurements[k],
                          calls[i].envelope.visualization.map_bounds[1])

\* A success envelope with map_bounds holds a stored measurement on the
\* equator and one north of it, and the bounds start north of the equator
C16_Witness ==
    \E i \in DOMAIN calls :
        /\ SuccessEnvelope(calls[i])
        /\ calls[i].envelope.data.source = "local_database"
        /\ store # <<>>
        /\ calls[i].envelope.visualization.map_bounds # None
        /\ calls[i].envelope.visualization.map_bounds[1].min_lat > 0
        /\ \E k \in 1..Len(calls[i].envelope.data.measurements) :
                calls[i].envelope.data.measurements[k]["latitude"] = Some(0)

\* ---------------------------------------------------------------------
\* Properties of repeated calls
\* ---------------------------------------------------------------------

\* Both calls have returned a success envelope, the storage having answered
\* both without error
BothAnswered ==
    /\ DOMAIN calls = ConcurrentCallIds
    /\ \A i \in DOMAIN calls : SuccessEnvelope(calls[i]) /\ calls[i].storage = "ok"

\* C17: with the external client disabled and the store unchanged, two calls
\* of route_query with the same text return the same measurements, whether
\* the store has matching rows or none
C17_Idempotent ==
    BothAnswered =>
        calls[1].envelope.data.measurements = calls[2].envelope.data.measurements

\* Two calls with the same text were answered from an empty store, and their
\* measurements differ
C17_Witness ==
    /\ BothAnswered
    /\ store = <<>>
    /\ calls[1].query_text = calls[2].query_text
    /\ calls[1].envelope.data.measurements # calls[2].envelope.data.measurements

\* The field is present in the measurements
Present(data, field) == \E k \in 1..Len(data) : HasKey(data[k], field)

\* The parameters a query can ask for
Parameters == {oceanographic_terms[k].param : k \in 1..Len(oceanographic_terms)}

\* "{param}_timeseries"
TimeseriesTag(param) ==
    CASE param = "temperature" -> "temperature_timeseries"
      [] param = "salinity"    -> "salinity_timeseries"
      [] param = "depth"       -> "depth_timeseries"
      [] param = "current"     -> "current_timeseries"
      [] param = "pressure"    -> "pressure_timeseries"

\* The suggestions follow the policy for the measurements, the time series
\* being suggested for the parameters of the set params
FollowsPolicy(charts, data, params) ==
    LET tags == {charts[k] : k \in 1..Len(charts)}
    IN  /\ "map" \in tags
        /\ "3d_globe" \in tags <=> (Present(data, "latitude") /\ Present(data, "longitude"))
        /\ \A p \in params :
              TimeseriesTag(p) \in tags <=> (Present(data, p) /\ Len(data) > 1)
        /\ "temperature_depth_profile" \in tags
              <=> (Present(data, "depth") /\ Present(data, "temperature"))
        /\ "heatmap" \in tags <=> Len(data) > 10

\* C18: the suggestions of every success envelope hold "map"; "3d_globe"
\* exactly when latitude and longitude are present; "{param}_timeseries" for
\* each present parameter exactly when there is more than one record;
\* "temperature_depth_profile" exactly when depth and temperature are present;
\* "heatmap" exactly when there are more than 10 records
C18_VisualizationPolicy ==
    \A i \in DOMAIN calls :
        SuccessEnvelope(calls[i])
            => FollowsPolicy(calls[i].envelope.visualization.charts,
                             calls[i].envelope.data.measurements, Parameters)

\* A success envelope with more than one record, all with a pressure, and
\* no time series of the pressure among the suggestions
C18_Witness ==
    \E i \in DOMAIN calls :
        /\ SuccessEnvelope(calls[i])
        /\ Len(calls[i].envelope.data.measurements) > 1
        /\ Present(calls[i].envelope.data.measurements, "pressure")
        /\ \A k \in 1..Len(calls[i].envelope.visualization.charts) :
                calls[i].envelope.visualization.charts[k] # "pressure_timeseries"

\* ---------------------------------------------------------------------
\* Properties of get_live_data_status
\* ---------------------------------------------------------------------

\* The call has returned a status with the age of the latest file
AgeReported(c) == c.pc = "done" /\ HasKey(c.result, "hours_old")

\* C19: the latest file being h hours old, the status is "active" when
\* h < 48, "delayed" when 48 <= h <= 72, "significant delay" when h > 72
C19_FreshnessClassification ==
    \A i \in DOMAIN calls :
        AgeReported(calls[i]) =>
            /\ calls[i].result.hours_old < 48
                  => calls[i].result.status = "Live data active"
            /\ (48 <= calls[i].result.hours_old /\ calls[i].result.hours_old <= 72)
                  => calls[i].result.status = "Data delay detected"
            /\ calls[i].result.hours_old > 72
                  => calls[i].result.status = "Significant delay"

\* The latest file is more than 72 hours old and the status is the one of
\* a delay
C19_Witness ==
    \E i \in DOMAIN calls :
        /\ AgeReported(calls[i])
        /\ calls[i].result.hours_old > 72
        /\ calls[i].result.status = "Data delay detected"

\* The request for the listing gave no candidate file: it failed, was
\* answered with another status than 200, or listed no matching name
NoCandidateFiles(response) ==
    \/ response.kind \in {"connect_error", "timeout", "error"}
    \/ response.kind = "response" /\ response.status_code # 200
    \/ response.kind = "response" /\ SelectSeq(response.files, MatchesFilePattern) = <<>>

\* C20: when no candidate file is discoverable, get_live_data_status reports
\* the status "unavailable", with live_data_available false
C20_UnavailableWithoutFiles ==
    \A i \in DOMAIN calls :
        (calls[i].pc = "done" /\ NoCandidateFiles(calls[i].manifest))
            => /\ ~calls[i].result.live_data_available
               /\ calls[i].result.status = "Live data unavailable"

\* The request for the listing failed to connect, and the status says that
\* live data is available and active, with the three fallback names
C20_Witness ==
    \E i \in DOMAIN calls :
        /\ calls[i].pc = "done"
        /\ calls[i].manifest.kind = "connect_error"
        /\ calls[i].result.live_data_available
        /\ calls[i].result.status = "Live data active"
        /\ calls[i].result.total_files = 3

\* ---------------------------------------------------------------------
\* Properties of the timeout of the external fetch
\* ---------------------------------------------------------------------

\* C21: when the timer of _try_api_source expires before fetch_data completes,
\* the fetch is abandoned and the local store is queried; the call returns a
\* success envelope from the local store, no exception is caught (the timeout
\* counts as "no data"), and nothing the abandoned fetch produces afterwards
\* is among the measurements
C21_TimeoutIsNoData ==
    \A i \in DOMAIN calls :
        calls[i].api_outcome = "timeout" =>
            /\ calls[i].fetch = "cancelled"
            /\ calls[i].api_response = PyNone
            /\ calls[i].pc \in {"fallback", "done"}
            /\ calls[i].pc = "done" =>
                /\ calls[i].steps = <<"parse_query", "fetch_data", "query_data">>
                /\ SuccessEnvelope(calls[i])
                /\ calls[i].exception = "none"
                /\ calls[i].envelope.data.source = "local_database"
                /\ \A k \in 1..Len(calls[i].envelope.data.measurements) :
                      calls[i].envelope.data.measurements[k].platform_id # <<"LATE", 0>>

\* The timer expired, the abandoned fetch produced measurements afterwards,
\* and the call has returned the measurements of the local store
C21_Witness ==
    \E i \in DOMAIN calls :
        /\ calls[i].api_outcome = "timeout"
        /\ calls[i].abandoned = PyList(<<AbandonedRecord>>)
        /\ SuccessEnvelope(calls[i])
        /\ calls[i].envelope.data.source = "local_database"

\* ---------------------------------------------------------------------
\* Properties of concurrent requests
\* ---------------------------------------------------------------------

\* The measurements of the success envelope of c are what the data sources
\* gave for the structured query parsed from the text of c
OwnMeasurements(c) ==
    IF c.envelope.data.source = "live_api"
    THEN /\ c.api_outcome = "returned"
         /\ c.envelope.data.measurements =
                (IF c.api_response.kind = "dict" THEN c.api_response.d["data"]
                 ELSE c.api_response.items)
    ELSE \E a, b \in RandomDraws :
            /\ a # b
            /\ c.envelope.data.measurements =
                  query_data(store, parse_query(c.query_text, now).value, now,
                             c.storage, a, b).value

\* C22: when route_query calls on the shared DataRouterService interleave,
\* the envelope of each call holds the call's own query text, the structured
\* query parsed from that text, and measurements fetched for that structured
\* query
C22_RequestIsolation ==
    \A i \in DOMAIN calls :
        /\ calls[i].pc # "start"
              => calls[i].parsed_query = parse_query(calls[i].query_text, now).value
        /\ SuccessEnvelope(calls[i]) =>
              /\ calls[i].envelope.query.original = calls[i].query_text
              /\ calls[i].envelope.query.parsed
                    = parse_query(calls[i].query_text, now).value
              /\ OwnMeasurements(calls[i])

\* Two requests with different texts are under way at once: the first has
\* its envelope from the local store, the second is past its parser and
\* waits for its own fallback
C22_Witness ==
    /\ DOMAIN calls = ConcurrentCallIds
    /\ calls[1].query_text # calls[2].query_text
    /\ SuccessEnvelope(calls[1])
    /\ calls[1].envelope.data.source = "local_database"
    /\ calls[2].pc = "fallback"
    /\ calls[2].parsed_query # calls[1].parsed_query

\* ---------------------------------------------------------------------
\* Properties of the measurements of the success envelope
\* ---------------------------------------------------------------------

\* C23: every measurement of every success envelope carries a data_source
\* tag, "live_api" or "local_database", and the tag is the envelope's source
C23_DataSourceTag ==
    \A i \in DOMAIN calls :
        (client = "real" /\ SuccessEnvelope(calls[i]))
            => \A k \in 1..Len(calls[i].envelope.data.measurements) :
                  /\ HasKey(calls[i].envelope.data.measurements[k], "data_source")
                  /\ calls[i].envelope.data.measurements[k]["data_source"]
                        \in {"live_api", "local_database"}
                  /\ calls[i].envelope.data.measurements[k]["data_source"]
                        = calls[i].envelope.data.source

\* A success envelope of source "live_api" whose measurements, returned by
\* the Argo candidate, are tagged "argo_live"
C23_Witness ==
    \E i \in DOMAIN calls :
        /\ client = "real" /\ SuccessEnvelope(calls[i])
        /\ calls[i].attempts = <<"argo">>
        /\ calls[i].envelope.data.source = "live_api"
        /\ calls[i].envelope.data.measurements[1]["data_source"] = "argo_live"

\* The call was answered with stored rows
FromStoredRows(c) ==
    /\ SuccessEnvelope(c)
    /\ c.storage = "ok"
    /\ c.envelope.data.source = "local_database"
    /\ c.envelope.data.measurements[1].platform_id[1] = "F"

\* The parameters of the structured query include param
AsksFor(parsed_query, param) ==
    \E k \in 1..Len(Get(parsed_query, "parameters", <<>>)) :
        parsed_query["parameters"][k] = param

\* <<year, month, day>> of an isoformat() text
DateOfIso(t) == FromIsoFormat(SubSeq(t, 1, 10))

\* Measurement m satisfies every bound the structured query has, and has a
\* value for temperature and for salinity when the query asks for it
SatisfiesQuery(m, q) ==
    /\ (HasKey(q, "min_lat") /\ HasKey(q, "max_lat"))
          => (m.latitude # None /\ q["min_lat"] <= m.latitude[1]
                                /\ m.latitude[1] <= q["max_lat"])
    /\ (HasKey(q, "min_lon") /\ HasKey(q, "max_lon"))
          => (m.longitude # None /\ q["min_lon"] <= m.longitude[1]
                                 /\ m.longitude[1] <= q["max_lon"])
    /\ HasKey(q, "start_time")
          => ToOrdinal(FromIsoFormat(q["start_time"])) <= ToOrdinal(DateOfIso(m.measurement_time))
    /\ HasKey(q, "end_time")
          => ToOrdinal(DateOfIso(m.measurement_time)) <= ToOrdinal(FromIsoFormat(q["end_time"]))
    /\ HasKey(q, "min_depth") => (m.depth # None /\ q["min_depth"] <= m.depth[1])
    /\ HasKey(q, "max_depth") => (m.depth # None /\ m.depth[1] <= q["max_depth"])
    /\ AsksFor(q, "temperature") => m.temperature # None
    /\ AsksFor(q, "salinity") => m.salinity # None

\* C24: every measurement query_data returns from stored rows satisfies all
\* bounds of the structured query (box, time range, depth range), and has a
\* temperature (salinity) when the parameters include temperature (salinity),
\* also when the stored value is 0
C24_StoreFiltering ==
    \A i \in DOMAIN calls :
        FromStoredRows(calls[i])
            => \A k \in 1..Len(calls[i].envelope.data.measurements) :
                  SatisfiesQuery(calls[i].envelope.data.measurements[k],
                                 calls[i].parsed_query)

\* The query asks for temperature, and the stored row with temperature 0 is
\* returned with no temperature
C24_Witness ==
    \E i \in DOMAIN calls :
        /\ FromStoredRows(calls[i])
        /\ AsksFor(calls[i].parsed_query, "temperature")
        /\ \E k \in 1..Len(calls[i].envelope.data.measurements) :
              /\ calls[i].envelope.data.measurements[k].platform_id = <<"F", 1>>
              /\ calls[i].envelope.data.measurements[k].temperature = None

\* ---------------------------------------------------------------------
\* Properties of the order of the steps of route_query
\* ---------------------------------------------------------------------

\* The collaborators in the order route_query calls them
Pipeline == <<"parse_query", "fetch_data", "query_data">>

\* The steps of call c so far follow the pipeline
InPipelineOrder(c) ==
    /\ Len(c.steps) <= Len(Pipeline)
    /\ c.steps = SubSeq(Pipeline, 1, Len(c.steps))
    /\ (c.pc # "start" /\ c.query_text.kind # "none") => Len(c.steps) >= 1
    /\ Len(c.steps) >= 2 => c.pc \in {"fetching", "fallback", "done"}
    /\ Len(c.steps) = 3 =>
          /\ c.pc = "done"
          /\ c.api_outcome \in {"returned", "exception", "timeout"}
          /\ ~(c.api_outcome = "returned" /\ ValidResult(c.api_response))
    /\ (c.pc = "done" /\ c.api_outcome = "returned" /\ ValidResult(c.api_response))
          => c.steps = <<"parse_query", "fetch_data">>

\* C25: in one request the parser is called once and before any data source;
\* the external client is attempted at most once, after parsing; the local
\* store is queried at most once, only after the external attempt has ended
\* (result, exception or timeout) and never when its result was validated;
\* no step is taken again
C25_PipelineOrdering ==
    /\ [](\A i \in DOMAIN calls : InPipelineOrder(calls[i]))
    /\ [][\A i \in DOMAIN calls :
            \/ calls'[i].steps = calls[i].steps
            \/ /\ Len(calls'[i].steps) = Len(calls[i].steps) + 1
               /\ SubSeq(calls'[i].steps, 1, Len(calls[i].steps)) = calls[i].steps]_vars

\* A call has gone through all three steps after the external client raised
C25_Witness ==
    \E i \in DOMAIN calls :
        /\ calls[i].pc = "done"
        /\ calls[i].steps = Pipeline
        /\ calls[i].api_outcome = "exception"

\* ---------------------------------------------------------------------
\* Properties of the directional keywords of the parser
\* ---------------------------------------------------------------------

\* The text holds a latitude and a longitude pattern
CoordinatePair(t) ==
    CoordSearch(t, {"n", "s"}) # <<>> /\ CoordSearch(t, {"e", "w"}) # <<>>

\* The text holds a directional keyword
Directional(t) ==
    \/ Contains(t, KwNorth) \/ Contains(t, KwSouth)
    \/ Contains(t, KwEast) \/ Contains(t, KwWest)

\* Centre and box chosen from the coordinate pair, else from the first
\* named basin, before the directional keywords are looked at
ChosenPlace(t) ==
    IF CoordinatePair(t)
    THEN LET Signed(match, minus) == IF match[2] = minus THEN 0 - match[1] ELSE match[1]
             Around(lat, lon) == [center_lat |-> lat, center_lon |-> lon,
                                  box |-> <<lat - 5, lat + 5, lon - 5, lon + 5>>]
         IN  Around(Signed(CoordSearch(t, {"n", "s"}), "s"),
                    Signed(CoordSearch(t, {"e", "w"}), "w"))
    ELSE LET Basin(r) == [center_lat |-> r.center_lat, center_lon |-> r.center_lon,
                          box |-> r.bounds]
         IN  Basin(regions[SetMin(NamedBasins(t))])

\* The structured query q has the box of place p, and its centre but for
\* the coordinate a directional keyword of t sets
DirectionReplacesCentre(q, t, p) ==
    /\ q["center_lat"] = (IF Contains(t, KwNorth) THEN 45
                          ELSE IF Contains(t, KwSouth) THEN -45
                          ELSE p.center_lat)
    /\ q["center_lon"] = (IF Contains(t, KwEast) THEN 90
                          ELSE IF Contains(t, KwWest) THEN -90
                          ELSE p.center_lon)
    /\ <<q["min_lat"], q["max_lat"], q["min_lon"], q["max_lon"]>> = p.box

HasCoordinate(m, key) == HasKey(m, key) /\ m[key] # None

\* The values of the coordinate over the records that have it
CoordinatesOf(data, key) ==
    {data[k][key][1] : k \in {j \in 1..Len(data) : HasCoordinate(data[j], key)}}

\* map_bounds is what the claim says for the measurements data
BoundsOverRecords(map_bounds, data) ==
    /\ map_bounds = None
          <=> ~\E k \in 1..Len(data) : HasCoordinate(data[k], "latitude")
                                        /\ HasCoordinate(data[k], "longitude")
    /\ map_bounds # None =>
          /\ map_bounds[1].min_lat = SetMin(CoordinatesOf(data, "latitude"))
          /\ map_bounds[1].max_lat = SetMax(CoordinatesOf(data, "latitude"))
          /\ map_bounds[1].min_lon = SetMin(CoordinatesOf(data, "longitude"))
          /\ map_bounds[1].max_lon = SetMax(CoordinatesOf(data, "longitude"))

\* C27: map_bounds of an envelope is absent exactly when no returned record
\* has both a latitude and a longitude; when present its four values are the
\* minimum and maximum of the records' latitudes and longitudes
C27_MapBoundsPresence ==
    \A i \in DOMAIN calls :
        (client = "real" /\ SuccessEnvelope(calls[i]))
            => BoundsOverRecords(calls[i].envelope.visualization.map_bounds,
                                 calls[i].envelope.data.measurements)

\* An envelope with map_bounds although one of its two records has a
\* latitude only and the other a longitude only
C27_Witness ==
    \E i \in DOMAIN calls :
        /\ client = "real" /\ SuccessEnvelope(calls[i])
        /\ Len(calls[i].envelope.data.measurements) = 2
        /\ \A k \in 1..2 :
              ~(HasCoordinate(calls[i].envelope.data.measurements[k], "latitude")
                /\ HasCoordinate(calls[i].envelope.data.measurements[k], "longitude"))
        /\ calls[i].envelope.visualization.map_bounds # None

\* C28: on any failure at discovery time (connection error, timeout, other
\* exception, a status other than 200, a listing with no matching name)
\* _get_latest_argo_files returns the fallback names, which carry today's
\* date, so that the age computed from the first of them is below 24 hours
C28_DiscoveryFallback ==
    \A i \in DOMAIN calls :
        (calls[i].pc = "done" /\ NoCandidateFiles(calls[i].manifest))
            => /\ _get_latest_argo_files(calls[i].manifest, now)
                    = [k \in 1..3 |-> ArgoFile("R", <<now[1], now[2], now[3]>>, k - 1)]
               /\ HasKey(calls[i].result, "hours_old")
               /\ calls[i].result.latest_file.date = <<now[1], now[2], now[3]>>
               /\ calls[i].result.hours_old >= 0
               /\ calls[i].result.hours_old < 24

\* The listing was answered with status 404 at noon, and the status is computed
\* from a first file of today, 12 hours old
C28_Witness ==
    \E i \in DOMAIN calls :
        /\ calls[i].pc = "done"
        /\ calls[i].manifest.kind = "response"
        /\ calls[i].manifest.status_code = 404
        /\ now[4] = 12
        /\ calls[i].result.latest_file = ArgoFile("R", <<now[1], now[2], now[3]>>, 0)
        /\ calls[i].result.hours_old = 12

\* ---------------------------------------------------------------------
\* Properties of the bounding box in ExternalAPIService.fetch_data
\* ---------------------------------------------------------------------

\* C29: every provider candidate applies the bounding box of the structured
\* query: every measurement fetch_data returns for a structured query of the
\* parser lies inside the box of that query, the measurements of the Argo
\* candidate's latest files included
C29_ProvidersApplyBox ==
    \A i \in DOMAIN calls :
        (/\ client = "real" /\ ~DEBUG
         /\ calls[i].api_outcome = "returned"
         /\ HasKey(calls[i].parsed_query, "min_lat"))
            => \A k \in 1..Len(calls[i].api_response.items) :
                  InBox(calls[i].api_response.items[k], calls[i].parsed_query)

\* For a query on the Pacific (longitudes -180 to -100) fetch_data returns,
\* from the latest files of the Argo candidate, a measurement at longitude 179
C29_Witness ==
    \E i \in DOMAIN calls :
        /\ client = "real" /\ ~DEBUG
        /\ calls[i].api_outcome = "returned"
        /\ calls[i].attempts = <<"argo">>
        /\ Get(calls[i].parsed_query, "max_lon", 0) = -100
        /\ \E k \in 1..Len(calls[i].api_response.items) :
              /\ calls[i].api_response.items[k].data_source = "argo_live"
              /\ calls[i].api_response.items[k].longitude = Some(179)

\* ---------------------------------------------------------------------
\* Properties of POST /query
\* ---------------------------------------------------------------------

\* C30: POST /query with a missing or empty query is rejected with the
\* status 400 and the detail "Query text is required", and route_query is
\* not called for it
C30_EmptyQueryRejected ==
    \A i \in DOMAIN calls :
        (calls[i].pc = "responded" /\ NotText(RequestQuery(calls[i].request)))
            => /\ calls[i].http.status_code = 400
               /\ calls[i].http.detail = "Query text is required"
               /\ ~calls[i].routed

\* A request with an empty query has been answered with the status 500,
\* route_query not having been called
C30_Witness ==
    \E i \in DOMAIN calls :
        /\ calls[i].pc = "responded"
        /\ calls[i].request = [query |-> Str(<<>>)]
        /\ calls[i].http.status_code = 500
        /\ ~calls[i].routed
        /\ calls[i].steps = <<>>

====
